---------------------------- MODULE Spec2Model ----------------------------
(***************************************************************************)
(* A model of the download-and-archive core of BuhChat: the Yandex.Disk    *)
(* link resolver and stream fetcher (YandexDownloader), the two archive    *)
(* builders (BulkDownloadAndZip, ZipBytesToTemp) with the handlers that    *)
(* call them (runBulkDownload, runProxyArchive) and the temp-file janitor  *)
(* (StartCleanupWorker).                                                   *)
(*                                                                         *)
(* Strings are sequences of tokens (a token is one character, or a word    *)
(* that is only ever used whole), so that trimming, substring search,      *)
(* extension splitting and concatenation are computed, not assumed.        *)
(***************************************************************************)
EXTENDS Integers, Sequences, FiniteSets, TLC

VARIABLES
    fetchIn,        \* downloadByURL: the upstream's behaviour for one call
    fetchOut,       \* downloadByURL: what the call returned and did
    resIn,          \* GetDirectURL: the share link and the upstream's answers
    resOut,         \* GetDirectURL: what the call returned and did
    req,            \* the delivery request: kind, items, category, payload names
    pc,             \* where the delivery request stands
    tmp,            \* os.TempDir(): entry name -> [isDir, mtime, files]
    baseDir,        \* the workspace the running builder created (or NoDir)
    idx,            \* BulkDownloadAndZip: loop index i (0-based, as in the code)
    used,           \* BulkDownloadAndZip: used[finalName]
    writtenPaths,   \* BulkDownloadAndZip: final names of the files written
    total,          \* BulkDownloadAndZip: running total of bytes
    ret,            \* the builder's return value [zipPath, dir, err]
    archive,        \* entries of the zip the builder wrote
    fetchLog,       \* DownloadToFile calls so far, in call order: [i, name]
    fetchedBytes,   \* sum of the sizes DownloadToFile reported so far
    exceededAt,     \* number of calls made when that sum first passed the
                    \* archive ceiling (0: it never did)
    held,           \* the workspace the handler took from the builder
    sendResult,     \* outcome of bot.Send for the archive
    now,            \* wall clock, minutes
    nextTick,       \* janitor: time of the next ticker tick
    sweepNow,       \* janitor: time.Now() of the running sweep (or -1)
    entries,        \* janitor: os.ReadDir snapshot still to be visited
    swept,          \* janitor: what the running sweep decided per entry
    yandexMaxSize,  \* YandexDownloader.maxSize, from the configuration
    disk,           \* the temp root's volume: free space, and whether Statfs works
    sheet,          \* the documents table: rows [doc, link, handle]
    doc,            \* runProxyArchive: the document record d it read (or None)
    trace,          \* runProxyArchive: what the request did, in order
    owner,          \* workspace name -> "live" | "crashed": its request's state
    ctx,            \* the request's context and when its deadline passed
    prior,          \* the archive an earlier call of the builder returned (or None)
    reqs,           \* concurrent requests: request -> [pc, dir, k]
    pathLog,        \* what concurrent requests did to paths, in order
    update,         \* an incoming message: [text, admin]
    ran,            \* the handlers that ran for it, in order
    cd,             \* downloadByURL: the Content-Disposition value of the HEAD answer
    fileName,       \* the file name downloadByURL returned and the entry name made of it
    cache,          \* the process-wide cache: texts, cats, admins, expires
    source,         \* the version of the sheet data a read returns now
    loaders,        \* goroutine -> where it stands in ensure/reload and what it read
    fsm,            \* fsm.state: user -> "" | "wish" | "imo"
    rows,           \* rows appended to the wishes and applications sheets, in order
    last,           \* the update handled last: who, what, and what the handler saw
    deep,           \* a deep link: the document it was made for, its payload, what it decodes to
    userTable,      \* column A of the users sheet from row 2 on: one user ID per row
    starts          \* the /start handlers in flight: [user, pc, found]

fetchVars   == <<fetchIn, fetchOut>>
resVars     == <<resIn, resOut>>
bulkVars    == <<idx, used, writtenPaths, total, fetchLog, fetchedBytes, exceededAt>>
reqVars     == <<req, pc, baseDir, ret, archive, held, sendResult>>
janitorVars == <<nextTick, sweepNow, entries, swept>>
cfgVars     == <<yandexMaxSize, disk>>
docVars     == <<sheet, doc, trace>>
pairVars    == <<reqs, pathLog>>
adminVars   == <<update, ran>>
nameVars    == <<cd, fileName>>
cacheVars   == <<cache, source, loaders>>
chatVars    == <<fsm, rows, last>>
userVars    == <<userTable, starts>>
lateVars    == <<cacheVars, chatVars, deep, userVars>>
moreVars    == <<prior, pairVars, adminVars, nameVars, lateVars>>
vars == <<fetchVars, resVars, bulkVars, reqVars, tmp, now, janitorVars,
          cfgVars, docVars, owner, ctx, moreVars>>

(***************************************************************************)
(* Bounds of the model.                                                    *)
(***************************************************************************)
\* The per-file ceiling YANDEX_MAX_MB is configured to (bytes, scaled down);
\* YandexDownloader.maxSize unless a run configures another.
maxSize == 2
\* BulkDownloadAndZip's maxArchiveBytes argument (bytes, scaled down).
maxArchiveBytes == 5
\* Longest item list handed to BulkDownloadAndZip.
MaxItems == 3
\* The clock stops advancing here.
MaxNow == 120

(***************************************************************************)
(* Strings.                                                                *)
(***************************************************************************)
\* "No value yet" of a record-valued variable.
None == [none |-> TRUE]

Min(a, b) == IF a < b THEN a ELSE b

\* strings.HasPrefix
HasPrefix(s, p) == Len(s) >= Len(p) /\ SubSeq(s, 1, Len(p)) = p

\* strings.Contains: p occurs in s as a contiguous run.
Contains(s, p) ==
    \E i \in 0..(Len(s) - Len(p)) : SubSeq(s, i + 1, i + Len(p)) = p

\* strings.TrimSpace: leading and trailing white space removed.
RECURSIVE TrimLeft(_)
TrimLeft(s) == IF s # <<>> /\ Head(s) = " " THEN TrimLeft(Tail(s)) ELSE s

RECURSIVE TrimRight(_)
TrimRight(s) ==
    IF s # <<>> /\ s[Len(s)] = " " THEN TrimRight(SubSeq(s, 1, Len(s) - 1)) ELSE s

TrimSpace(s) == TrimRight(TrimLeft(s))

\* strings.Map dropping the runes of `/\:*?"<>|` (token "/" stands for them).
RECURSIVE DropBad(_)
DropBad(s) ==
    IF s = <<>> THEN <<>>
    ELSE IF Head(s) = "/" THEN DropBad(Tail(s))
    ELSE <<Head(s)>> \o DropBad(Tail(s))

\* strconv.Itoa for n >= 0.
Digits == <<"0", "1", "2", "3", "4", "5", "6", "7", "8", "9">>

RECURSIVE Itoa(_)
Itoa(n) == IF n < 10 THEN <<Digits[n + 1]>> ELSE Itoa(n \div 10) \o <<Digits[(n % 10) + 1]>>

\* Index of the last "." of s, 0 when there is none.
RECURSIVE LastDot(_)
LastDot(s) ==
    IF s = <<>> THEN 0
    ELSE IF s[Len(s)] = "." THEN Len(s)
    ELSE LastDot(SubSeq(s, 1, Len(s) - 1))

\* filepath.Ext of a name without separators: the suffix from the last dot.
Ext(s) == IF LastDot(s) = 0 THEN <<>> ELSE SubSeq(s, LastDot(s), Len(s))

\* strings.TrimSuffix(s, suf)
TrimSuffix(s, suf) ==
    IF Len(s) >= Len(suf) /\ SubSeq(s, Len(s) - Len(suf) + 1, Len(s)) = suf
    THEN SubSeq(s, 1, Len(s) - Len(suf))
    ELSE s

(***************************************************************************)
(* YandexDownloader.downloadByURL: HEAD, then GET under the byte ceiling.  *)
(***************************************************************************)
\* Declared lengths: -1 is "no Content-Length".
Lengths == -1..(maxSize + 2)

\* What resp.Body delivers: len bytes, then EOF or (err) a read error.  With
\* a declared Content-Length net/http delivers exactly that many bytes, or
\* fewer and io.ErrUnexpectedEOF.
Bodies(cl) ==
    IF cl < 0
    THEN [len : 0..(maxSize + 2), err : BOOLEAN]
    ELSE {[len |-> cl, err |-> FALSE]} \cup [len : 0..(cl - 1), err : {TRUE}]

FetchInputs ==
    { in \in [headErr : BOOLEAN, headStatus : {200, 302, 404}, headCL : Lengths,
              getErr : BOOLEAN, getStatus : {200, 404}, getCL : Lengths,
              body : [len : 0..(maxSize + 2), err : BOOLEAN]] :
        in.body \in Bodies(in.getCL) }

FetchResult(e, n, r, c) == [err |-> e, dataLen |-> n, bytesRead |-> r, calls |-> c]

\* size > 0 && size > y.maxSize, on the HEAD response.
HeadTooLargeOff(size) == FALSE
HeadTooLarge(size) == size > 0 /\ size > yandexMaxSize

\* respGet.ContentLength > 0 && respGet.ContentLength > limit
GetTooLargeOff(size) == FALSE
GetTooLarge(size) == size > 0 /\ size > yandexMaxSize

\* int64(len(data)) > y.maxSize
WireTooLargeOff(n) == FALSE
WireTooLarge(n) == n > yandexMaxSize

\* io.ReadAll(io.LimitReader(body, n)): the bytes read and whether it failed.
ReadAllLimited(body, n) ==
    [read |-> Min(body.len, n), err |-> body.err /\ body.len < n]

downloadByURL(in) ==
    IF in.headErr THEN FetchResult("transport", 0, 0, <<"HEAD">>)
    ELSE IF in.headStatus \notin {200, 302} THEN FetchResult("status", 0, 0, <<"HEAD">>)
    ELSE IF HeadTooLarge(in.headCL) THEN FetchResult("ErrFileTooLarge", 0, 0, <<"HEAD">>)
    ELSE IF in.getErr THEN FetchResult("transport", 0, 0, <<"HEAD", "GET">>)
    ELSE IF in.getStatus # 200 THEN FetchResult("status", 0, 0, <<"HEAD", "GET">>)
    ELSE IF GetTooLarge(in.getCL) THEN FetchResult("ErrFileTooLarge", 0, 0, <<"HEAD", "GET">>)
    ELSE LET r == ReadAllLimited(in.body, yandexMaxSize + 1) IN
         IF r.err THEN FetchResult("read", 0, r.read, <<"HEAD", "GET">>)
         ELSE IF WireTooLarge(r.read)
              THEN FetchResult("ErrFileTooLarge", 0, r.read, <<"HEAD", "GET">>)
              ELSE FetchResult("nil", r.read, r.read, <<"HEAD", "GET">>)

(***************************************************************************)
(* YandexDownloader.GetDirectURL: share link -> direct URL.                *)
(***************************************************************************)
DiskYandexRu  == <<"disk.yandex", ".ru">>
DiskYandexCom == <<"disk.yandex", ".com">>
DownloaderHost == <<"downloader.">> \o DiskYandexRu
ExampleHost == <<"example.com">>

\* The share-link domains the resolver knows.
KnownShareHosts == {DiskYandexRu, DiskYandexCom}

LinkParts ==
    [lead  : {<<>>, <<" ">>},
     host  : KnownShareHosts \cup {ExampleHost, DownloaderHost},
     tail  : {<<"/d/abc">>, <<"/?from=">> \o DiskYandexRu},
     trail : {<<>>, <<" ">>}]

\* The link as the string the resolver is given.
LinkString(l) == l.lead \o <<"https://">> \o l.host \o l.tail \o l.trail

DirectURLString == <<"https://">> \o DownloaderHost \o <<"/disk/x">>
OtherURLString  == <<"https://">> \o ExampleHost \o <<"/x">>

\* isYandexDiskURL: the domain occurs anywhere in the string.
isYandexDiskURL(s) == Contains(s, DiskYandexRu) \/ Contains(s, DiskYandexCom)

\* The inputs of one resolution: the link (with the host it names, for the
\* properties; the resolver sees the string only) and the upstream's answers.
GivenLinks ==
    {[link |-> LinkString(l), host |-> l.host] : l \in LinkParts}
        \cup {[link |-> <<>>, host |-> <<>>], [link |-> <<" ">>, host |-> <<>>]}

Upstreams ==
    [pageErr : BOOLEAN,                          \* GET of the share link fails
     loc     : {<<>>, DirectURLString, OtherURLString},   \* Location header
     bodyErr : BOOLEAN,                          \* reading the body fails
     match   : {"none", "within", "beyond"},     \* direct URL in the markup,
                                                 \* within / beyond 1 MiB
     api     : {"transport", "status", "badjson", "empty", "href"}]

ResolveInputs ==
    {[link |-> g.link, host |-> g.host, pageErr |-> u.pageErr, loc |-> u.loc,
      bodyErr |-> u.bodyErr, match |-> u.match, api |-> u.api] :
        g \in GivenLinks, u \in Upstreams}

ResolveResult(u, e, c, s) == [url |-> u, err |-> e, calls |-> c, tried |-> s]

getDirectViaCloudAPIDown(in) == <<>>
\* getDirectViaCloudAPI: "" on any failure, else the trimmed href.
getDirectViaCloudAPI(in) ==
    IF in.api = "href" THEN TrimSpace(<<" ">> \o DirectURLString) ELSE <<>>

\* reDirectURL.FindString over at most 1<<20 bytes of the body.
FindInPrefix(in) == IF in.match = "within" THEN DirectURLString ELSE <<>>

\* Location header accepted by GetDirectURL.
LocationAccepted(loc) == loc # <<>> /\ Contains(loc, <<"downloader.", "disk.yandex">>)

GetDirectURL(in) ==
    LET shareURL == TrimSpace(in.link) IN
    IF shareURL = <<>> THEN ResolveResult(<<>>, "empty", <<>>, <<>>)
    ELSE IF ~isYandexDiskURL(shareURL) THEN ResolveResult(shareURL, "nil", <<>>, <<>>)
    ELSE IF in.pageErr THEN ResolveResult(<<>>, "transport", <<"GET share">>, <<>>)
    ELSE IF LocationAccepted(in.loc)
         THEN ResolveResult(in.loc, "nil", <<"GET share">>, <<"location">>)
    ELSE IF in.bodyErr
         THEN ResolveResult(<<>>, "read", <<"GET share">>, <<"location", "markup">>)
    ELSE IF FindInPrefix(in) # <<>>
         THEN ResolveResult(FindInPrefix(in), "nil", <<"GET share">>, <<"location", "markup">>)
    ELSE IF getDirectViaCloudAPI(in) # <<>>
         THEN ResolveResult(getDirectViaCloudAPI(in), "nil", <<"GET share", "GET api">>,
                            <<"location", "markup", "api">>)
    ELSE ResolveResult(<<>>, "ErrDirectNotFound", <<"GET share", "GET api">>,
                       <<"location", "markup", "api">>)

(***************************************************************************)
(* The temp root and the archive builders (downloader.go).                 *)
(***************************************************************************)
\* filepath.Base: the last element of the path ("/" is the separator).
RECURSIVE StripTrailingSlashes(_)
StripTrailingSlashes(s) ==
    IF s # <<>> /\ s[Len(s)] = "/" THEN StripTrailingSlashes(SubSeq(s, 1, Len(s) - 1)) ELSE s

RECURSIVE AfterLastSlash(_)
AfterLastSlash(s) ==
    IF s = <<>> \/ s[Len(s)] = "/" THEN <<>>
    ELSE AfterLastSlash(SubSeq(s, 1, Len(s) - 1)) \o <<s[Len(s)]>>

Base(path) ==
    IF path = <<>> THEN <<".">>
    ELSE IF StripTrailingSlashes(path) = <<>> THEN <<"/">>
    ELSE AfterLastSlash(StripTrailingSlashes(path))

\* sanitizeBulkFilename
sanitizeBulkFilename(s) == TrimSpace(DropBad(s))

\* sanitizeCategoryForZip: bad runes dropped, blanks to "_", "archive" if empty.
sanitizeCategoryForZip(s) ==
    LET mapped == [i \in 1..Len(DropBad(s)) |->
                        IF DropBad(s)[i] = " " THEN "_" ELSE DropBad(s)[i]]
        out == TrimSpace(mapped)
    IN IF out = <<>> THEN <<"archive">> ELSE out

\* zipName := sanitizeCategoryForZip(categoryName) + ".zip"
ZipNameOf(categoryName) ==
    LET zipName == sanitizeCategoryForZip(categoryName) \o <<".", "zip">>
    IN IF zipName = <<".", "zip">> THEN <<"archive", ".", "zip">> ELSE zipName

\* base := sanitizeBulkFilename(it.Filename); "file_"+i when that is empty.
BaseName(filename, i) ==
    IF sanitizeBulkFilename(filename) = <<>>
    THEN <<"file", "_">> \o Itoa(i)
    ELSE sanitizeBulkFilename(filename)

\* baseNoExt + "_" + counter + ext
Suffixed(base, counter) ==
    TrimSuffix(base, Ext(base)) \o <<"_">> \o Itoa(counter) \o Ext(base)

\* for used[finalName] { counter++; finalName = ... }
RECURSIVE DedupFrom(_, _, _)
DedupFrom(base, counter, usedNames) ==
    LET finalName == IF counter = 0 THEN base ELSE Suffixed(base, counter)
    IN IF finalName \in usedNames THEN DedupFrom(base, counter + 1, usedNames)
       ELSE finalName

DedupOnce(base, usedNames) ==
    IF base \in usedNames THEN Suffixed(base, 1) ELSE base
Dedup(base, usedNames) == DedupFrom(base, 0, usedNames)

\* total > maxArchiveBytes
ArchiveTooLargeNever(t) == FALSE
ArchiveTooLarge(t) == t > maxArchiveBytes

\* A generator that hands out one id again and again.
uuidFixed(t) == 1
\* Temp-root entries are named <<prefix, id>>.  uuid.New(): an id no entry has.
uuidNew(t) ==
    LET ids == {n[2] : n \in DOMAIN t}
    IN IF ids = {} THEN 1 ELSE 1 + (CHOOSE m \in ids : \A k \in ids : k <= m)

\* os.MkdirAll(dir, 0700) in the temp root.
MkdirAll(t, dir, at) ==
    [n \in DOMAIN t \cup {dir} |->
        IF n = dir /\ dir \notin DOMAIN t
        THEN [isDir |-> TRUE, mtime |-> at, files |-> [f \in {} |-> None]]
        ELSE t[n]]

\* os.RemoveAll(dir)
RemoveAllKeeps(t, dir) == t
RemoveAll(t, dir) == [n \in DOMAIN t \ {dir} |-> t[n]]

\* A file (re)written inside directory dir: the directory's mtime moves.
WriteFile(t, dir, name, content, at) ==
    [t EXCEPT ![dir] =
        [isDir |-> TRUE, mtime |-> at,
         files |-> [f \in DOMAIN t[dir].files \cup {name} |->
                        IF f = name THEN content ELSE t[dir].files[f]]]]

\* Contents of files: the bytes fetched for item src, or the zip (being)
\* written, which is not any item's bytes.
Fetched(src) == [src |-> src, whole |-> TRUE]
ZipBytes == [src |-> -1, whole |-> TRUE]

\* The builders' return values.
Failure(e) == [zipPath |-> <<>>, dir |-> <<>>, err |-> e]
Success(dir, zipName) == [zipPath |-> <<dir, zipName>>, dir |-> dir, err |-> "nil"]

\* The Telegram document limit; runBulkDownload passes it as maxArchiveBytes.
telegramMaxBytes == maxArchiveBytes

\* getFreeSpaceBytes: the free bytes; math.MaxUint64 when Statfs fails.
getFreeSpaceBytes(d) == IF d.statfsErr THEN "MaxUint64" ELSE d.free

\* free < minFreeBytes
BelowFloorNever(free) == FALSE
BelowFloor(free) == free = "low"

\* sanitizeZipName
sanitizeZipName(s) ==
    IF TrimSpace(DropBad(s)) = <<>> THEN <<"document">> ELSE TrimSpace(DropBad(s))

\* The File_ID Telegram returns for the archive built for document id.
FileIDOf(id) == <<"file", id>>

\* YandexDownloader.DownloadToFile: an error, or n <= maxSize bytes written.
DownloadOutcomes ==
    [err : {"nil"}, n : 0..maxSize] \cup [err : {"network", "ErrFileTooLarge"}, n : {0}]

\* http.NewRequestWithContext(ctx, ...) and client.Do(req): with the deadline
\* of ctx passed, Do returns the context's error and sends nothing.
DoFailsNever(c) == FALSE
DoFails(c) == c.state = "done"
\* The deadline passes while the call is in flight: the call is aborted.
Aborts(c) == c.state = "expiring"
\* The context after a call that carried it.
After(c) == IF c.state = "expiring" THEN [c EXCEPT !.state = "done"] ELSE c

\* DownloadToFile(ctx, ...) under the request's context.
DownloadOutcomesUnder(c) ==
    IF DoFails(c) \/ Aborts(c) THEN {[err |-> "network", n |-> 0]} ELSE DownloadOutcomes

\* BulkDownloadAndZip up to the loop: arguments, free space, workspace.
BulkBegin ==
    /\ pc = "start" /\ req.kind = "bulk"
    /\ \E yandexNil \in BOOLEAN, mkdirOk \in BOOLEAN :
        IF yandexNil \/ Len(req.items) = 0
        THEN /\ ret' = Failure("yandex or items empty")
             /\ pc' = "returned" /\ UNCHANGED <<tmp, baseDir>>
        ELSE IF BelowFloor(getFreeSpaceBytes(disk))
        THEN /\ ret' = Failure("not enough disk space")
             /\ pc' = "returned" /\ UNCHANGED <<tmp, baseDir>>
        ELSE IF ~mkdirOk
        THEN /\ ret' = Failure("mkdir")
             /\ pc' = "returned" /\ UNCHANGED <<tmp, baseDir>>
        ELSE /\ baseDir' = <<"bulk_", uuidNew(tmp)>>
             /\ tmp' = MkdirAll(tmp, baseDir', now)
             /\ pc' = "loop" /\ UNCHANGED ret
    /\ UNCHANGED <<cfgVars, docVars, owner, moreVars, ctx, fetchVars, resVars, bulkVars, req, archive, held, sendResult,
                   now, janitorVars>>

\* One iteration of the loop over items: name, download, running total.
BulkFetch ==
    /\ pc = "loop" /\ idx < Len(req.items)
    /\ LET finalName == Dedup(BaseName(req.items[idx + 1], idx), used) IN
       \E out \in DownloadOutcomesUnder(ctx) :
        /\ ctx' = After(ctx)
        /\ used' = used \cup {finalName}
        /\ fetchLog' = Append(fetchLog, [i |-> idx, name |-> finalName])
        /\ fetchedBytes' = fetchedBytes + out.n
        /\ exceededAt' = IF exceededAt = 0 /\ fetchedBytes' > maxArchiveBytes
                         THEN Len(fetchLog') ELSE exceededAt
        /\ IF out.err # "nil"
           THEN /\ tmp' = RemoveAll(tmp, baseDir)
                /\ ret' = Failure(out.err) /\ pc' = "returned"
                /\ UNCHANGED <<idx, writtenPaths, total>>
           ELSE /\ total' = total + out.n
                /\ IF ArchiveTooLarge(total')
                   THEN /\ tmp' = RemoveAll(tmp, baseDir)
                        /\ ret' = Failure("ErrArchiveTooLarge") /\ pc' = "returned"
                        /\ UNCHANGED <<idx, writtenPaths>>
                   ELSE /\ tmp' = WriteFile(tmp, baseDir, finalName,
                                            Fetched(idx), now)
                        /\ writtenPaths' = Append(writtenPaths, finalName)
                        /\ idx' = idx + 1
                        /\ pc' = IF idx' = Len(req.items) THEN "zip" ELSE "loop"
                        /\ UNCHANGED ret
    /\ UNCHANGED <<cfgVars, docVars, owner, moreVars, fetchVars, resVars, req, baseDir, archive, held, sendResult,
                   now, janitorVars>>

\* The zip pass: create the archive file, one deflate entry per written
\* path in order, close.  The result of io.Copy is dropped by the code, so a
\* failed copy (of entry copyErrAt) leaves a short entry and no error.
BulkZip ==
    /\ pc = "zip"
    /\ LET zipName == ZipNameOf(req.categoryName)
           created == WriteFile(tmp, baseDir, zipName, ZipBytes, now)
       IN
       \E fail \in {"nil", "create", "header", "open", "zw.Close", "zf.Close"},
          copyErrAt \in 0..Len(writtenPaths) :
        IF fail # "nil"
        THEN /\ tmp' = RemoveAll(tmp, baseDir)
             /\ ret' = Failure(fail) /\ UNCHANGED archive
        ELSE /\ tmp' = created
             /\ archive' = [k \in 1..Len(writtenPaths) |->
                    [name |-> writtenPaths[k],
                     content |-> [created[baseDir].files[writtenPaths[k]]
                                    EXCEPT !.whole = (k # copyErrAt)]]]
             /\ ret' = Success(baseDir, zipName)
    /\ pc' = "returned"
    /\ UNCHANGED <<cfgVars, docVars, owner, moreVars, ctx, fetchVars, resVars, bulkVars, req, baseDir, held, sendResult,
                   now, janitorVars>>

\* ZipBytesToTemp: data into single_<uuid>/<inner>, wrapped in a one-entry
\* zip.  After CreateHeader the code drops every error (os.Open, io.Copy,
\* zw.Close, zf.Close): `copied` is whether all of them went well.
ZipBytesToTemp ==
    /\ \/ pc = "start" /\ req.kind = "single"
       \/ pc = "build" /\ req.kind = "doc"
    /\ LET zipArg == IF req.kind = "doc"
                     THEN sanitizeZipName(doc.name) \o <<".", "zip">>
                     ELSE req.zipFilename
           innerFilename ==
               IF Base(req.innerFilename) \in {<<>>, <<".">>}
               THEN <<"document">> ELSE Base(req.innerFilename)
           zipFilename ==
               IF Base(zipArg) \in {<<>>, <<".">>}
               THEN <<"archive", ".", "zip">> ELSE Base(zipArg)
           dir == <<"single_", uuidNew(tmp)>>
           made == MkdirAll(tmp, dir, now)
           \* filepath.Join(dir, "..") and Join(dir, "/") are directories
           rawIsFile == innerFilename \notin {<<".", ".">>, <<"/">>}
           written == WriteFile(made, dir, innerFilename, Fetched(0), now)
           created == WriteFile(written, dir, zipFilename, ZipBytes, now)
       IN
       \E fail \in {"nil", "mkdir", "write", "create", "header"}, copied \in BOOLEAN :
        IF fail = "mkdir"
        THEN /\ ret' = Failure(fail) /\ UNCHANGED <<tmp, baseDir, archive>>
        ELSE /\ baseDir' = dir
             /\ IF fail # "nil" \/ ~rawIsFile
                THEN /\ tmp' = RemoveAll(made, dir)
                     /\ ret' = Failure(IF fail = "nil" THEN "write" ELSE fail)
                     /\ UNCHANGED archive
                ELSE /\ tmp' = created
                     /\ archive' = <<[name |-> innerFilename,
                                      content |-> [created[dir].files[innerFilename]
                                                     EXCEPT !.whole = copied]]>>
                     /\ ret' = Success(dir, zipFilename)
    /\ pc' = "returned"
    /\ UNCHANGED <<cfgVars, docVars, owner, moreVars, ctx, fetchVars, resVars, bulkVars, req, held,
                   sendResult, now, janitorVars>>

(***************************************************************************)
(* The handlers around the builders (runBulkDownload, runProxyArchive).    *)
(***************************************************************************)
\* A message of the single-document pipeline to the user.
Msg(text) == [op |-> "msg", text |-> text]

\* if err != nil { ...; return }  defer os.RemoveAll(dir)
HandlerTakesResult ==
    /\ pc = "returned"
    /\ IF ret.err # "nil"
       THEN /\ pc' = "done" /\ UNCHANGED held
            /\ trace' = IF req.kind = "doc" THEN Append(trace, Msg("failed")) ELSE trace
       ELSE pc' = "send" /\ held' = ret.dir /\ UNCHANGED trace
    /\ UNCHANGED <<cfgVars, sheet, doc, owner, moreVars, ctx, fetchVars, resVars, bulkVars, req,
                   baseDir, ret, archive, sendResult, tmp, now, janitorVars>>

\* bot.Send(chat, doc): the archive goes out, or the send fails.  Telegram
\* answers a sent document with its File_ID (named), or the message carries
\* none.
SendArchive ==
    /\ pc = "send"
    /\ \E ok \in BOOLEAN, named \in BOOLEAN :
        /\ sendResult' = [ok |-> ok,
                          handle |-> IF ok /\ named /\ req.kind = "doc"
                                     THEN FileIDOf(doc.id) ELSE <<>>]
        /\ pc' = IF ok /\ req.kind = "doc" THEN "store" ELSE "deferred"
        /\ trace' = IF req.kind # "doc" THEN trace
                    ELSE IF ok THEN Append(trace, [op |-> "sendArchive"])
                    ELSE trace \o <<[op |-> "sendArchive"], Msg("failed")>>
    /\ UNCHANGED <<cfgVars, sheet, doc, owner, moreVars, ctx, fetchVars, resVars, bulkVars, req,
                   baseDir, ret, archive, held, tmp, now, janitorVars>>

\* The deferred os.RemoveAll runs as the handler returns, on either outcome.
DeferredRemoveAllAfterGoodSend ==
    /\ pc = "deferred"
    /\ tmp' = IF sendResult.ok THEN RemoveAll(tmp, held) ELSE tmp
    /\ pc' = "done"
    /\ UNCHANGED <<cfgVars, docVars, owner, moreVars, ctx, fetchVars, resVars, bulkVars, req, baseDir, ret, archive,
                   held, sendResult, now, janitorVars>>
DeferredRemoveAll ==
    /\ pc = "deferred"
    /\ tmp' = RemoveAll(tmp, held)
    /\ pc' = "done"
    /\ UNCHANGED <<cfgVars, docVars, owner, moreVars, ctx, fetchVars, resVars, bulkVars, req, baseDir, ret, archive,
                   held, sendResult, now, janitorVars>>

(***************************************************************************)
(* The single-document pipeline (runProxyArchive in handlers.go) and what  *)
(* it calls: the documents table, the free-space check, the size probe     *)
(* and the fetch by share link.                                            *)
(***************************************************************************)
\* Document.SheetRow of the row at position p of the table (resp.Values[p-1],
\* the table starting at sheet row 2), and the position a sheet row names.
SheetRowOf(p) == 2 + (p - 1)
PositionOf(sheetRow) == sheetRow - 1

\* GetDocumentsByCategory: the rows of the category, in table order.
RECURSIVE DocumentsFrom(_, _, _)
DocumentsFrom(sh, p, categoryID) ==
    IF p > Len(sh) THEN <<>>
    ELSE (IF sh[p].cat = categoryID
          THEN <<[id |-> sh[p].id, name |-> sh[p].name, link |-> TrimSpace(sh[p].link),
                  FileID |-> sh[p].handle, SheetRow |-> SheetRowOf(p)]>>
          ELSE <<>>) \o DocumentsFrom(sh, p + 1, categoryID)

GetDocumentsByCategory(sh, categoryID) == DocumentsFrom(sh, 1, categoryID)

\* UpdateDocumentFileID: column E of sheet row sheetRow.  A row below the
\* table is not a document row; writing there changes no document.
UpdateDocumentFileID(sh, sheetRow, fileID) ==
    IF PositionOf(sheetRow) \in 1..Len(sh)
    THEN [sh EXCEPT ![PositionOf(sheetRow)].handle = fileID]
    ELSE sh

\* GetFileSize: [size, err, calls].
ProbeResult(n, e, c) == [size |-> n, err |-> e, calls |-> c]

GetFileSize(in) ==
    LET shareURL == TrimSpace(in.link)
        direct == GetDirectURL([in EXCEPT !.link = shareURL])
    IN
    IF shareURL = <<>> THEN ProbeResult(0, "empty", <<>>)
    ELSE IF ~isYandexDiskURL(shareURL) THEN ProbeResult(0, "ErrNotYandexDisk", <<>>)
    ELSE IF direct.err # "nil" THEN ProbeResult(0, direct.err, direct.calls)
    ELSE IF in.headErr THEN ProbeResult(0, "transport", direct.calls \o <<"HEAD">>)
    ELSE IF in.headStatus \notin {200, 302}
         THEN ProbeResult(0, "status", direct.calls \o <<"HEAD">>)
    ELSE IF in.headCL >= 0 THEN ProbeResult(in.headCL, "nil", direct.calls \o <<"HEAD">>)
    ELSE ProbeResult(-1, "nil", direct.calls \o <<"HEAD">>)

\* GetFile: the share page, then downloadByURL of the direct URL found.
Prepend(c, r) == [r EXCEPT !.calls = c \o r.calls]

GetFile(in) ==
    LET shareURL == TrimSpace(in.link) IN
    IF ~isYandexDiskURL(shareURL) THEN FetchResult("ErrNotYandexDisk", 0, 0, <<>>)
    ELSE IF in.pageErr THEN FetchResult("transport", 0, 0, <<"GET share">>)
    ELSE IF in.loc # <<>> /\ (Contains(in.loc, <<"downloader.", "disk.yandex">>)
                              \/ HasPrefix(in.loc, <<"https://">>))
         THEN Prepend(<<"GET share">>, downloadByURL(in))
    ELSE IF in.bodyErr THEN FetchResult("read", 0, 0, <<"GET share">>)
    ELSE IF FindInPrefix(in) # <<>> THEN Prepend(<<"GET share">>, downloadByURL(in))
    ELSE IF getDirectViaCloudAPI(in) # <<>>
         THEN Prepend(<<"GET share", "GET api">>, downloadByURL(in))
    ELSE FetchResult("ErrDirectNotFound", 0, 0, <<"GET share", "GET api">>)

\* The two calls under the request's context.  A call that returns before
\* its first exchange (blank link, not a share link) does not notice the
\* deadline; one in flight is aborted after the exchanges it began; one made
\* after the deadline fails at its first client.Do.
GetFileSizeUnder(c, in) ==
    LET r == GetFileSize(in) IN
    IF r.err \in {"empty", "ErrNotYandexDisk"} THEN r
    ELSE IF DoFails(c) THEN ProbeResult(0, "transport", <<>>)
    ELSE IF Aborts(c) THEN ProbeResult(0, "transport", r.calls)
    ELSE r

GetFileUnder(c, in) ==
    LET r == GetFile(in) IN
    IF r.err = "ErrNotYandexDisk" THEN r
    ELSE IF DoFails(c) THEN FetchResult("transport", 0, 0, <<>>)
    ELSE IF Aborts(c) THEN FetchResult("transport", 0, r.bytesRead, r.calls)
    ELSE r

\* Links of documents: a share link, one with blanks around it, a link to
\* another host, and one to another host that mentions the share domain.
ShareLink == <<"https://">> \o DiskYandexRu \o <<"/d/abc">>
SpacedShareLink == <<" ">> \o ShareLink \o <<" ">>
ForeignLink == <<"https://">> \o ExampleHost \o <<"/d/abc">>
ForeignLinkNamingShare == <<"https://">> \o ExampleHost \o <<"/?from=">> \o DiskYandexRu

Row(id, cat, link, handle) ==
    [id |-> id, cat |-> cat, name |-> <<"a">>, link |-> link, handle |-> handle]

SheetTables ==
    {<<Row("A", "c", ShareLink, <<>>)>>,
     <<Row("A", "c", ShareLink, FileIDOf("A"))>>,
     <<Row("X", "x", ShareLink, <<>>), Row("B", "c", SpacedShareLink, <<>>)>>,
     <<Row("F", "c", ForeignLink, <<>>), Row("A", "c", ShareLink, <<>>)>>,
     <<Row("Q", "c", ForeignLinkNamingShare, <<>>)>>,
     <<Row("E", "c", <<" ">>, <<>>)>>}

\* Sizes of the document's file around the two ceilings.
FileSizes ==
    {0, maxSize, maxSize + 1, telegramMaxBytes, telegramMaxBytes + 1,
     telegramMaxBytes + 2}

\* YANDEX_MAX_MB as configured: below the Telegram limit, equal to it (the
\* default), or above it.
ConfiguredCeilings == {maxSize, telegramMaxBytes, telegramMaxBytes + 1}

Disks ==
    {[free |-> "ok", statfsErr |-> FALSE], [free |-> "low", statfsErr |-> FALSE],
     [free |-> "low", statfsErr |-> TRUE]}

\* How the share host answers while a link is being resolved.
ResolveAnswers ==
    {[pageErr |-> FALSE, loc |-> DirectURLString, bodyErr |-> FALSE,
      match |-> "none", api |-> "empty"],
     [pageErr |-> FALSE, loc |-> <<>>, bodyErr |-> FALSE,
      match |-> "within", api |-> "empty"],
     [pageErr |-> FALSE, loc |-> OtherURLString, bodyErr |-> FALSE,
      match |-> "none", api |-> "href"],
     [pageErr |-> FALSE, loc |-> <<>>, bodyErr |-> FALSE,
      match |-> "none", api |-> "empty"],
     [pageErr |-> TRUE, loc |-> <<>>, bodyErr |-> FALSE,
      match |-> "none", api |-> "empty"]}

\* How the download host answers for a file of size bytes: it declares the
\* true length or none, and delivers the file, unless an exchange fails.
FetchAnswers(size, declares) ==
    LET cl == IF declares THEN size ELSE -1
        good == [headErr |-> FALSE, headStatus |-> 200, headCL |-> cl,
                 getErr |-> FALSE, getStatus |-> 200, getCL |-> cl,
                 body |-> [len |-> size, err |-> FALSE]]
    IN {good, [good EXCEPT !.headErr = TRUE], [good EXCEPT !.headStatus = 404],
        [good EXCEPT !.getErr = TRUE]}

\* Everything the upstream may answer to one call about the request's link.
UpstreamFor(link) ==
    {[link |-> link, pageErr |-> r.pageErr, loc |-> r.loc, bodyErr |-> r.bodyErr,
      match |-> r.match, api |-> r.api,
      headErr |-> f.headErr, headStatus |-> f.headStatus, headCL |-> f.headCL,
      getErr |-> f.getErr, getStatus |-> f.getStatus, getCL |-> f.getCL,
      body |-> f.body] :
        r \in ResolveAnswers, f \in FetchAnswers(req.size, req.declares)}

\* d.FileID != ""
HasCachedHandleNever(d) == FALSE
HasCachedHandle(d) == d.FileID # <<>>

\* err == nil && size > 0 && size > telegramMaxBytes
KnownOversizeOrUnknown(size) == size.err = "nil" /\ (size.size < 0 \/ size.size > telegramMaxBytes)
KnownOversize(size) == size.err = "nil" /\ size.size > 0 /\ size.size > telegramMaxBytes

\* msg != nil && msg.Document != nil && msg.Document.FileID != ""
msgHasFileIDAlways(r) == TRUE
msgHasFileID(r) == r.handle # <<>>

\* runProxyArchive, lines 283-311: the document list, the record at idx, and
\* the send by a stored File_ID.
ProxyReadDocs ==
    /\ pc = "start" /\ req.kind = "doc"
    /\ ctx' = After(ctx)
    /\ \E readErr \in IF DoFails(ctx) \/ Aborts(ctx) THEN {TRUE} ELSE BOOLEAN :
        LET docs == GetDocumentsByCategory(sheet, req.categoryID)
            d == docs[req.idx + 1]
        IN
        IF readErr \/ req.idx >= Len(docs)
        THEN /\ pc' = "done" /\ trace' = <<[op |-> "docs"]>> /\ UNCHANGED doc
        ELSE /\ doc' = d
             /\ IF d.link = <<>>
                THEN pc' = "done" /\ trace' = <<[op |-> "docs"]>>
                ELSE IF HasCachedHandle(d)
                THEN /\ pc' = "done"
                     /\ trace' = <<[op |-> "docs"],
                                   [op |-> "sendByHandle", handle |-> d.FileID]>>
                ELSE pc' = "probe" /\ trace' = <<[op |-> "docs"]>>
    /\ UNCHANGED <<cfgVars, sheet, owner, moreVars, fetchVars, resVars, bulkVars, req, baseDir,
                   ret, archive, held, sendResult, tmp, now, janitorVars>>

\* runProxyArchive, lines 313-332: free space, then the size probe.
ProxyProbe ==
    /\ pc = "probe"
    /\ IF BelowFloor(getFreeSpaceBytes(disk))
       THEN pc' = "done" /\ trace' = Append(trace, Msg("space, link")) /\ UNCHANGED ctx
       ELSE \E in \in UpstreamFor(doc.link) :
            LET size == GetFileSizeUnder(ctx, in) IN
            /\ ctx' = After(ctx)
            /\ pc' = IF size.err = "ErrNotYandexDisk" \/ KnownOversize(size)
                     THEN "done" ELSE "fetch"
            /\ trace' = trace \o
                 <<[op |-> "GetFileSize", size |-> size.size, err |-> size.err,
                    calls |-> size.calls]>> \o
                 (IF size.err = "ErrNotYandexDisk" THEN <<Msg("link")>>
                  ELSE IF KnownOversize(size) THEN <<Msg("too large, link")>>
                  ELSE <<>>)
    /\ UNCHANGED <<cfgVars, sheet, doc, owner, moreVars, fetchVars, resVars, bulkVars, req,
                   baseDir, ret, archive, held, sendResult, tmp, now, janitorVars>>

\* runProxyArchive, lines 334-347: the fetch.
ProxyGetFile ==
    /\ pc = "fetch"
    /\ \E in \in UpstreamFor(doc.link) :
        LET got == GetFileUnder(ctx, in) IN
        /\ ctx' = After(ctx)
        /\ pc' = IF got.err = "nil" THEN "build" ELSE "done"
        /\ trace' = trace \o
             <<[op |-> "GetFile", err |-> got.err, dataLen |-> got.dataLen,
                bytesRead |-> got.bytesRead, calls |-> got.calls]>> \o
             (IF got.err = "nil" THEN <<>>
              ELSE IF got.err = "ErrNotYandexDisk" THEN <<Msg("link")>>
              ELSE IF got.err = "ErrFileTooLarge" THEN <<Msg("too large, link")>>
              ELSE <<Msg("failed")>>)
    /\ UNCHANGED <<cfgVars, sheet, doc, owner, moreVars, fetchVars, resVars, bulkVars, req,
                   baseDir, ret, archive, held, sendResult, tmp, now, janitorVars>>

\* runProxyArchive, lines 369-371: the File_ID goes to column E of the row
\* the record was read from; the result of the write is dropped.
StoreHandle ==
    /\ pc = "store"
    /\ IF ~msgHasFileID(sendResult)
       THEN UNCHANGED <<sheet, trace, ctx>>
       ELSE /\ ctx' = After(ctx)
            /\ trace' = Append(trace, [op |-> "UpdateDocumentFileID",
                                       row |-> doc.SheetRow,
                                       handle |-> sendResult.handle])
            /\ \E written \in IF DoFails(ctx) \/ Aborts(ctx) THEN {FALSE} ELSE BOOLEAN :
                sheet' = IF written
                         THEN UpdateDocumentFileID(sheet, doc.SheetRow, sendResult.handle)
                         ELSE sheet
    /\ pc' = "deferred"
    /\ UNCHANGED <<cfgVars, doc, owner, moreVars, fetchVars, resVars, bulkVars, req, baseDir,
                   ret, archive, held, sendResult, tmp, now, janitorVars>>

\* The documents table is a shared spreadsheet: while a request is under way
\* an editor inserts a document above, removes the first row or swaps the
\* first two (one edit of a table as the request found it).
NewRow ==
    [id |-> "N", cat |-> "c", name |-> <<"n">>,
     link |-> <<"https://">> \o DiskYandexRu \o <<"/d/new">>, handle |-> <<>>]

SheetEdit ==
    /\ req.kind = "doc" /\ pc \notin {"start", "done"}
    /\ sheet \in SheetTables
    /\ \/ /\ \A p \in 1..Len(sheet) : sheet[p].id # NewRow.id
          /\ sheet' = <<NewRow>> \o sheet
       \/ /\ Len(sheet) >= 2
          /\ sheet' = Tail(sheet)
       \/ /\ Len(sheet) >= 2 /\ sheet[1] # sheet[2]
          /\ sheet' = <<sheet[2], sheet[1]>> \o Tail(Tail(sheet))
    /\ UNCHANGED <<cfgVars, doc, trace, owner, moreVars, ctx, fetchVars, resVars, bulkVars, reqVars,
                   tmp, now, janitorVars>>

(***************************************************************************)
(* Idle values: what a specification leaves alone.                         *)
(***************************************************************************)
NoDir == <<>>
EmptyTmp == [n \in {} |-> None]

IdleFetch == fetchIn = None /\ fetchOut = None
IdleResolve == resIn = None /\ resOut = None
IdleBulk ==
    /\ idx = 0 /\ used = {} /\ writtenPaths = <<>> /\ total = 0
    /\ fetchLog = <<>> /\ fetchedBytes = 0 /\ exceededAt = 0
IdleRequest ==
    /\ req = None /\ pc = "idle" /\ baseDir = NoDir /\ ret = None
    /\ archive = <<>> /\ held = NoDir /\ sendResult = None
IdleJanitor == nextTick = 0 /\ sweepNow = -1 /\ entries = <<>> /\ swept = {}
\* The default configuration on a volume with room.
DefaultCfg == yandexMaxSize = maxSize /\ disk = [free |-> "ok", statfsErr |-> FALSE]
IdleDoc == sheet = <<>> /\ doc = None /\ trace = <<>>
NoOwners == owner = [n \in {} |-> None]
\* No earlier call, no concurrent requests, no incoming message.
IdleLate ==
    /\ cache = None /\ source = 0 /\ loaders = <<>>
    /\ fsm = <<>> /\ rows = <<>> /\ last = None
    /\ deep = None
    /\ userTable = <<>> /\ starts = <<>>
IdleMore ==
    /\ IdleLate
    /\ prior = None /\ reqs = [r \in {} |-> None] /\ pathLog = <<>>
    /\ update = None /\ ran = <<>>
    /\ cd = <<>> /\ fileName = None
\* A context whose deadline lies ahead.  Once it is set to pass, pc and at
\* keep where the request stood and how many calls it had made, and inFlight
\* whether the deadline passes during the next call that carries the context
\* ("expiring") or before it ("done").
LiveCtx == [state |-> "live", at |-> 0, pc |-> "idle", inFlight |-> FALSE]

(***************************************************************************)
(* SpecFetch: one call of downloadByURL against every upstream behaviour.  *)
(***************************************************************************)
InitFetch ==
    /\ fetchIn \in FetchInputs /\ fetchOut = None
    /\ IdleResolve /\ IdleBulk /\ IdleRequest /\ IdleJanitor
    /\ DefaultCfg /\ IdleDoc /\ NoOwners /\ ctx = LiveCtx /\ IdleMore
    /\ tmp = EmptyTmp /\ now = 0

Fetch ==
    /\ fetchOut = None
    /\ fetchOut' = downloadByURL(fetchIn)
    /\ UNCHANGED <<cfgVars, docVars, owner, moreVars, ctx, fetchIn, resVars, bulkVars, reqVars, tmp, now, janitorVars>>

SpecFetch == InitFetch /\ [][Fetch]_vars

\* Both exchanges were answered with a status downloadByURL accepts, so the
\* body of the GET response is what is being fetched.
ExchangesAccepted(in) ==
    /\ ~in.headErr /\ in.headStatus \in {200, 302}
    /\ ~in.getErr /\ in.getStatus = 200

\* C4: a body stream longer than the ceiling makes the fetch fail with
\* ErrFileTooLarge, whatever length the HEAD response declared (smaller, zero
\* or none) and with no length on the GET response, after at most ceiling+1
\* body bytes were read; a body of exactly ceiling bytes (no oversize length
\* declared) succeeds; data returned on success is never longer than the
\* ceiling.
C4_WireCeilingEnforced ==
    fetchOut # None =>
        /\ fetchOut.bytesRead <= maxSize + 1
        /\ (fetchOut.err = "nil" => fetchOut.dataLen <= maxSize)
        /\ (ExchangesAccepted(fetchIn) /\ fetchIn.body.len > maxSize
                => fetchOut.err = "ErrFileTooLarge")
        /\ ((ExchangesAccepted(fetchIn)
                /\ fetchIn.body = [len |-> maxSize, err |-> FALSE]
                /\ fetchIn.headCL <= maxSize)
                => fetchOut.err = "nil" /\ fetchOut.dataLen = maxSize)

\* C4 witness: the HEAD response understated the length, the GET response
\* declared none, the stream ran past the ceiling and was cut at ceiling+1.
C4_Witness ==
    /\ fetchOut # None
    /\ fetchIn.headCL \in 0..maxSize /\ fetchIn.getCL = -1
    /\ fetchIn.body.len > maxSize + 1
    /\ fetchOut.err = "ErrFileTooLarge" /\ fetchOut.bytesRead = maxSize + 1

\* C5: a declared content length above the ceiling, on an accepted HEAD
\* response or only on the accepted GET response, makes the fetch fail with
\* ErrFileTooLarge, and no response declaring such a length has a body byte
\* read.
C5_DeclaredOversizeRejectedUnread ==
    fetchOut # None =>
        /\ ((~fetchIn.headErr /\ fetchIn.headStatus \in {200, 302}
                /\ fetchIn.headCL > maxSize)
                => (fetchOut.err = "ErrFileTooLarge"
                    /\ fetchOut.bytesRead = 0 /\ fetchOut.calls = <<"HEAD">>))
        /\ (ExchangesAccepted(fetchIn) /\ fetchIn.getCL > maxSize
                => fetchOut.err = "ErrFileTooLarge" /\ fetchOut.bytesRead = 0)
        /\ ((~fetchIn.headErr /\ fetchIn.headCL > maxSize)
                \/ (fetchOut.calls = <<"HEAD", "GET">> /\ ~fetchIn.getErr
                        /\ fetchIn.getCL > maxSize)
                => fetchOut.bytesRead = 0)

\* C5 witness: only the GET response declared the oversize length.
C5_Witness ==
    /\ fetchOut # None
    /\ fetchIn.headCL \in -1..maxSize /\ fetchIn.getCL > maxSize
    /\ fetchOut.err = "ErrFileTooLarge" /\ fetchOut.calls = <<"HEAD", "GET">>
    /\ fetchOut.bytesRead = 0

(***************************************************************************)
(* SpecResolve: one call of GetDirectURL for every link and upstream.      *)
(***************************************************************************)
InitResolve ==
    /\ resIn \in ResolveInputs /\ resOut = None
    /\ IdleFetch /\ IdleBulk /\ IdleRequest /\ IdleJanitor
    /\ DefaultCfg /\ IdleDoc /\ NoOwners /\ ctx = LiveCtx /\ IdleMore
    /\ tmp = EmptyTmp /\ now = 0

Resolve ==
    /\ resOut = None
    /\ resOut' = GetDirectURL(resIn)
    /\ UNCHANGED <<cfgVars, docVars, owner, moreVars, ctx, resIn, fetchVars, bulkVars, reqVars,
                   tmp, now, janitorVars>>

SpecResolve == InitResolve /\ [][Resolve]_vars

\* The link is on a known share domain.
OnShareDomain(in) == in.host \in KnownShareHosts

\* What each strategy can give, read off the upstream's answers alone.
LocYields(in)    == ~in.pageErr /\ in.loc = DirectURLString
MarkupYields(in) == ~in.pageErr /\ ~in.bodyErr /\ in.match = "within"
ApiYields(in)    == in.api = "href"

\* C6 (as claimed): for every link whose host is not a known share domain,
\* GetDirectURL returns the input string unchanged and makes no network call,
\* also when a known domain occurs outside the host part or white space
\* surrounds the link.
C6_ForeignHostReturnedUnchanged ==
    resOut # None /\ resIn.host # <<>> /\ ~OnShareDomain(resIn)
        => resOut.url = resIn.link /\ resOut.err = "nil" /\ resOut.calls = <<>>

\* C7 (as claimed): on a known share domain the strategies run in the order
\* Location, markup, metadata endpoint; the first that yields a URL decides,
\* a failing one falls through to the next, and ErrDirectNotFound comes
\* exactly when all three fail.
C7_FallThroughOnEveryFailure ==
    resOut # None /\ OnShareDomain(resIn) =>
        /\ (LocYields(resIn) => resOut.url = resIn.loc /\ resOut.tried = <<"location">>)
        /\ (~LocYields(resIn) /\ MarkupYields(resIn)
                => resOut.url = DirectURLString /\ resOut.tried = <<"location", "markup">>)
        /\ (~LocYields(resIn) /\ ~MarkupYields(resIn) /\ ApiYields(resIn)
                => resOut.url = DirectURLString)
        /\ (resOut.err = "ErrDirectNotFound"
                <=> ~LocYields(resIn) /\ ~MarkupYields(resIn) /\ ~ApiYields(resIn))

\* C7 (amended): as claimed whenever the share page was fetched and, where
\* the markup is needed, read; a transport error of the share-page request or
\* of reading its body is returned as it is, with no later strategy tried.
\* ErrDirectNotFound comes exactly when the page was fetched and read and
\* none of the three strategies yields a URL.
C7_OrderedStrategies ==
    resOut # None /\ OnShareDomain(resIn) =>
        /\ (resIn.pageErr
                => /\ resOut.err = "transport" /\ resOut.tried = <<>>
                   /\ resOut.calls = <<"GET share">>)
        /\ (LocYields(resIn)
                => /\ resOut.err = "nil" /\ resOut.url = resIn.loc
                   /\ resOut.tried = <<"location">> /\ resOut.calls = <<"GET share">>)
        /\ (~resIn.pageErr /\ ~LocYields(resIn) /\ resIn.bodyErr
                => /\ resOut.err = "read" /\ resOut.tried = <<"location", "markup">>
                   /\ resOut.calls = <<"GET share">>)
        /\ (~LocYields(resIn) /\ MarkupYields(resIn)
                => /\ resOut.err = "nil" /\ resOut.url = DirectURLString
                   /\ resOut.tried = <<"location", "markup">>
                   /\ resOut.calls = <<"GET share">>)
        /\ ((~resIn.pageErr /\ ~resIn.bodyErr
                /\ ~LocYields(resIn) /\ ~MarkupYields(resIn) /\ ApiYields(resIn))
                => /\ resOut.err = "nil" /\ resOut.url = DirectURLString
                   /\ resOut.tried = <<"location", "markup", "api">>
                   /\ resOut.calls = <<"GET share", "GET api">>)
        /\ (resOut.err = "ErrDirectNotFound"
                <=> (~resIn.pageErr /\ ~resIn.bodyErr
                     /\ ~LocYields(resIn) /\ ~MarkupYields(resIn) /\ ~ApiYields(resIn)))

\* C7 witness: Location and markup gave nothing (the URL lies beyond the
\* first MiB), the metadata endpoint gave the URL.
C7_Witness ==
    /\ resOut # None /\ OnShareDomain(resIn)
    /\ resIn.loc = OtherURLString /\ resIn.match = "beyond"
    /\ resOut.err = "nil" /\ resOut.url = DirectURLString
    /\ resOut.tried = <<"location", "markup", "api">>

(***************************************************************************)
(* Spec: one delivery request, bulk or single-file, from the call of its   *)
(* archive builder to the handler's return.                                *)
(***************************************************************************)
BulkNames ==
    {<<"a", ".", "t">>, <<"a", "_", "1", ".", "t">>, <<"/">>,
     <<"file", "_", "1">>, <<"a", ".", "zip">>}

ItemLists == UNION {[1..n -> BulkNames] : n \in 0..MaxItems}

BulkRequests ==
    [kind : {"bulk"}, items : ItemLists, categoryName : {<<"a">>, <<"/">>}]

SingleRequests ==
    [kind : {"single"},
     innerFilename : {<<>>, <<"document">>, <<"a", ".", "zip">>, <<".", ".">>,
                      <<"d", "/", "a", ".", "t">>},
     zipFilename : {<<"a", ".", "zip">>, <<"document", ".", "zip">>}]

DocRequests ==
    [kind : {"doc"}, categoryID : {"c"}, idx : 0..1, size : FileSizes,
     declares : BOOLEAN, innerFilename : {<<"document">>, <<"a", ".", "zip">>}]

Init ==
    /\ req \in BulkRequests \cup SingleRequests \cup DocRequests
    /\ pc = "start" /\ baseDir = NoDir /\ ret = None /\ archive = <<>>
    /\ held = NoDir /\ sendResult = None
    /\ tmp = EmptyTmp /\ now = 0
    /\ IdleBulk /\ IdleFetch /\ IdleResolve /\ IdleJanitor
    /\ disk \in Disks
    /\ yandexMaxSize \in IF req.kind = "doc" THEN ConfiguredCeilings ELSE {maxSize}
    /\ sheet \in IF req.kind = "doc" THEN SheetTables ELSE {<<>>}
    /\ doc = None /\ trace = <<>> /\ NoOwners /\ ctx = LiveCtx /\ IdleMore

Next ==
    \/ BulkBegin
    \/ BulkFetch
    \/ BulkZip
    \/ ZipBytesToTemp
    \/ HandlerTakesResult
    \/ SendArchive
    \/ DeferredRemoveAll
    \/ ProxyReadDocs
    \/ ProxyProbe
    \/ ProxyGetFile
    \/ StoreHandle
    \/ SheetEdit

Spec == Init /\ [][Next]_vars

BuilderReturned == pc = "returned"
BulkSucceeded == pc = "returned" /\ req.kind = "bulk" /\ ret.err = "nil"

\* C1: whenever a builder returns an error, the workspace directory that
\* call created is gone from the temp root at that moment and both returned
\* paths are empty.
C1_FailureLeavesNoWorkspace ==
    (BuilderReturned /\ ret.err # "nil") =>
        /\ ret.zipPath = <<>> /\ ret.dir = <<>>
        /\ baseDir \notin DOMAIN tmp

\* C1 witness: the second download of a batch failed after the first item had
\* been written into the workspace.
C1_Witness ==
    /\ BuilderReturned /\ ret.err = "network"
    /\ Len(fetchLog) = 2 /\ baseDir # NoDir /\ baseDir \notin DOMAIN tmp

\* C2: a request that obtained a workspace from its builder has removed it by
\* the time the request finishes, whether the send succeeded or failed.
C2_WorkspaceReleasedAtRequestEnd ==
    (pc = "done" /\ held # NoDir) => held \notin DOMAIN tmp

\* C2 witness: the request finished after a failed send.
C2_Witness ==
    /\ pc = "done" /\ held # NoDir /\ ~sendResult.ok
    /\ held \notin DOMAIN tmp

Desired(k) == BaseName(req.items[k], k - 1)

\* Entry k carries the smallest unused counter name of its desired name.
SmallestUnusedSuffix(k) ==
    LET earlier == {archive[j].name : j \in 1..(k - 1)} IN
    \E c \in 1..Len(req.items) :
        /\ archive[k].name = Suffixed(Desired(k), c)
        /\ archive[k].name \notin earlier
        /\ \A b \in 1..(c - 1) : Suffixed(Desired(k), b) \in earlier

PairwiseDistinctNames ==
    /\ Len(archive) = Len(req.items)
    /\ \A j, k \in 1..Len(archive) : j < k => archive[j].name # archive[k].name

\* C8 as stated: N pairwise distinct entry names, the first occurrence of a
\* desired name keeps it, every later occurrence gets the smallest unused
\* name_k.ext.
C8_FirstOccurrenceKeepsName ==
    BulkSucceeded =>
        /\ PairwiseDistinctNames
        /\ \A k \in 1..Len(archive) :
            IF \E j \in 1..(k - 1) : Desired(j) = Desired(k)
            THEN SmallestUnusedSuffix(k)
            ELSE archive[k].name = Desired(k)

\* C8: N pairwise distinct entry names; an item keeps its desired name unless
\* an earlier item was already given that name (as its own or as a suffixed
\* duplicate), and then it gets the smallest unused name_k.ext.
C8_UnusedNameKept ==
    BulkSucceeded =>
        /\ PairwiseDistinctNames
        /\ \A k \in 1..Len(archive) :
            IF Desired(k) \in {archive[j].name : j \in 1..(k - 1)}
            THEN SmallestUnusedSuffix(k)
            ELSE archive[k].name = Desired(k)

\* C8 witness: a duplicate took a_1.t before the item that asks for a_1.t.
C8_Witness ==
    /\ BulkSucceeded
    /\ req.items = <<<<"a", ".", "t">>, <<"a", ".", "t">>, <<"a", "_", "1", ".", "t">>>>
    /\ archive[2].name = <<"a", "_", "1", ".", "t">>
    /\ archive[3].name = <<"a", "_", "1", "_", "1", ".", "t">>

\* C9: fetches run one after another in input order, and entry i of a
\* successful archive is the file fetched for input item i.
C9_EntriesAreTheFetchedFilesInOrder ==
    /\ \A k \in 1..Len(fetchLog) : fetchLog[k].i = k - 1
    /\ BulkSucceeded =>
        /\ Len(archive) = Len(req.items)
        /\ \A k \in 1..Len(archive) : archive[k].content.src = k - 1

\* What the single-document request did so far.
Did(op) == \E k \in 1..Len(trace) : trace[k].op = op
Events(op) == SelectSeq(trace, LAMBDA e : e.op = op)
DocRead == req.kind = "doc" /\ doc # None

\* The link names a known share host in its host part.
OnShareHost(link) ==
    \E h \in KnownShareHosts : HasPrefix(TrimSpace(link), <<"https://">> \o h \o <<"/">>)

HandleWrites ==
    LET writes == Events("UpdateDocumentFileID") IN
    /\ Len(writes) <= 1
    /\ Len(writes) = 1 =>
            /\ Did("GetFile") /\ ret.err = "nil" /\ Did("sendArchive")
            /\ sendResult.ok /\ sendResult.handle # <<>>
            /\ writes[1].handle = sendResult.handle

\* A step of the request that changes the table is that one write.
TableChangedByRequest ==
    (pc' # pc /\ sheet' # sheet) =>
        /\ pc = "store" /\ sendResult.ok /\ sendResult.handle # <<>>
        /\ ~Did("UpdateDocumentFileID")

\* C14: a request writes a handle at most once, and only the non-empty
\* handle that the successful send of its freshly built archive returned; no
\* other step of the request changes the table.
C14_HandleWrittenOnceAfterGoodSend == []HandleWrites /\ [][TableChangedByRequest]_vars

\* C14 witness: the request finished having written the handle of the archive
\* it sent.
C14_Witness ==
    /\ DocRead /\ pc = "done" /\ Did("UpdateDocumentFileID")
    /\ \E p \in 1..Len(sheet) : sheet[p].handle = sendResult.handle

\* C15: every handle in the table stands against the document from whose
\* link the archive it names was built.
C15_HandlesBelongToTheirDocuments ==
    \A p \in 1..Len(sheet) :
        sheet[p].handle # <<>> => sheet[p].handle = FileIDOf(sheet[p].id)

\* C16: for a document whose link is on no known share host (and without a
\* stored handle) the request ends with the message offering the link, after
\* no network call, no fetch and no archive, with no workspace and no handle
\* written.
C16_ForeignLinkGetsFallbackOnly ==
    (DocRead /\ doc.FileID = <<>> /\ doc.link # <<>> /\ ~OnShareHost(doc.link)) =>
        /\ \A k \in 1..Len(trace) :
                /\ trace[k].op \in {"docs", "GetFileSize", "msg"}
                /\ trace[k].op = "GetFileSize" => trace[k].calls = <<>>
        /\ pc = "done" => trace[Len(trace)] \in {Msg("link"), Msg("space, link")}
        /\ tmp = EmptyTmp /\ baseDir = NoDir

\* C17: a probe that finds no content length returns -1 without error, and
\* the request goes on to the fetch after it.
C17_UnknownSizeIsNoRejection ==
    \A k \in 1..Len(trace) :
        trace[k].op = "GetFileSize" =>
            /\ (trace[k].err = "nil" /\ ~req.declares) => trace[k].size = -1
            /\ (trace[k].err = "nil" /\ trace[k].size = -1) =>
                    IF k = Len(trace) THEN pc = "fetch"
                    ELSE trace[k + 1].op = "GetFile"

\* C17 witness: the probe returned -1 and the fetch delivered the file.
C17_Witness ==
    \E k \in 1..(Len(trace) - 1) :
        /\ trace[k].op = "GetFileSize" /\ trace[k].size = -1 /\ trace[k].err = "nil"
        /\ trace[k + 1].op = "GetFile" /\ trace[k + 1].err = "nil"

\* C18: the request tells the user the file is too large only if the file is
\* larger than the configured per-file ceiling, and a probed size above that
\* ceiling is followed by no read of a body byte.
C18_OversizeExactlyAboveConfiguredCeiling ==
    DocRead =>
        /\ Msg("too large, link") \in {trace[k] : k \in 1..Len(trace)}
                => req.size > yandexMaxSize
        /\ \A j, k \in 1..Len(trace) :
                (/\ trace[j].op = "GetFileSize" /\ trace[j].err = "nil"
                 /\ trace[j].size > yandexMaxSize /\ trace[k].op = "GetFile")
                    => trace[k].bytesRead = 0

\* No download was started: no item fetched and no workspace made by the
\* bulk builder, no probe and no fetch by the single-document pipeline.
NoDownloadStarted ==
    /\ fetchLog = <<>> /\ tmp = EmptyTmp /\ baseDir = NoDir
    /\ ~Did("GetFileSize") /\ ~Did("GetFile")

\* C19 as stated: with free space under the temp root below the floor, no
\* download starts.
C19_LowSpaceStartsNoDownload ==
    (req.kind \in {"bulk", "doc"} /\ disk.free = "low") => NoDownloadStarted

\* C19: with free space measured below the floor no download starts; when
\* Statfs fails the space counts as sufficient.
C19_MeasuredLowSpaceStartsNoDownload ==
    (req.kind \in {"bulk", "doc"} /\ disk.free = "low" /\ ~disk.statfsErr)
        => NoDownloadStarted

\* C19 witness: the bulk builder refused to start and the single-document
\* pipeline would stop at the same check.
C19_Witness ==
    /\ req.kind = "bulk" /\ Len(req.items) = 2
    /\ disk = [free |-> "low", statfsErr |-> FALSE]
    /\ BuilderReturned /\ ret.err = "not enough disk space"

\* C20: a builder that returns success has written every entry of the archive
\* in full; a failed open, copy or close makes it return an error instead.
C20_SuccessMeansEveryEntryWritten ==
    (BuilderReturned /\ ret.err = "nil") =>
        \A k \in 1..Len(archive) : archive[k].content.whole

\* The upstream requests the single-document request has sent so far, in
\* order.
RECURSIVE CallsFrom(_)
CallsFrom(k) ==
    IF k > Len(trace) THEN <<>>
    ELSE (IF trace[k].op \in {"GetFileSize", "GetFile"} THEN trace[k].calls ELSE <<>>)
            \o CallsFrom(k + 1)
UpstreamCalls == CallsFrom(1)

\* C22: once a call of the request to the upstream failed with a transport
\* error, the request sends nothing more to the upstream; and the share page
\* is requested at most once per request.
C22_NoRetryAndOneResolution ==
    /\ \A j, k \in 1..Len(trace) :
        (/\ j < k
         /\ trace[j].op \in {"GetFileSize", "GetFile"}
         /\ trace[k].op \in {"GetFileSize", "GetFile"}
         /\ trace[j].err = "transport") => trace[k].calls = <<>>
    /\ Len(SelectSeq(UpstreamCalls, LAMBDA c : c = "GET share")) <= 1

\* C28: when a builder returns success, the archive file is at the path of none
\* of the payload files, and every entry holds the bytes written for its
\* payload, not bytes of the archive file.
C28_ArchiveNeverTakesPayloadPath ==
    (pc = "returned" /\ ret.err = "nil") =>
        \A k \in 1..Len(archive) :
            /\ ret.zipPath # <<ret.dir, archive[k].name>>
            /\ archive[k].content.src # ZipBytes.src

\* Messages that offer the original link, and the generic failure message.
OffersLink == {Msg("link"), Msg("too large, link"), Msg("space, link")}
GenericFailure == Msg("failed")

\* C26: in the single-document pipeline an oversize file and a resolution
\* that finds no direct URL are answered with a message offering the original
\* link; a network failure and insufficient space are answered with the
\* generic failure message.
C26_FailureKindsMapToMessages ==
    DocRead =>
        /\ \A k \in 1..(Len(trace) - 1) :
            trace[k].op = "GetFile" =>
                /\ trace[k].err \in {"ErrFileTooLarge", "ErrDirectNotFound"}
                        => trace[k + 1] \in OffersLink
                /\ trace[k].err \in {"transport", "status"}
                        => trace[k + 1] = GenericFailure
        /\ (pc = "done" /\ trace[Len(trace)].op = "msg" /\ BelowFloor(getFreeSpaceBytes(disk))
                /\ \A k \in 1..Len(trace) : trace[k].op # "GetFileSize")
                => trace[Len(trace)] = GenericFailure

\* handleDeepLink, lines 393-398: the link is accepted when its first read of
\* the list finds a document with a link at idx.  The table is not edited
\* before runProxyArchive has read it, so a request that ended without a
\* record still sees the table handleDeepLink saw.
AcceptedByDeepLink ==
    /\ req.kind = "doc"
    /\ IF doc # None THEN doc.link # <<>>
       ELSE LET docs == GetDocumentsByCategory(sheet, req.categoryID)
            IN req.idx < Len(docs) /\ docs[req.idx + 1].link # <<>>

\* What the user gets to see of the request: a message, the document sent by
\* its stored handle, or the archive (a failed send of the archive is followed
\* by the failure message, which is then the outcome).
UserVisible(k) ==
    \/ trace[k].op \in {"msg", "sendByHandle"}
    \/ /\ trace[k].op = "sendArchive"
       /\ ~(k < Len(trace) /\ trace[k + 1].op = "msg")

\* C37: a single-document request that handleDeepLink accepted has, when
\* runProxyArchive is over, shown the user exactly one outcome: the document
\* or one failure or fallback message, on every path.
C37_AcceptedRequestEndsWithOneOutcome ==
    (AcceptedByDeepLink /\ pc = "done") =>
        Cardinality({k \in 1..Len(trace) : UserVisible(k)}) = 1

(***************************************************************************)
(* SpecDeadline: one delivery request under the deadline its handler gives *)
(* it (context.WithTimeout(..., 2*time.Minute) in handleDeepLink and       *)
(* handleDlAll).  The deadline may pass at any moment of the request.      *)
(***************************************************************************)
\* Calls the request has made so far: DownloadToFile calls of a bulk request,
\* steps recorded of a single-document request.
Issued == IF req.kind = "bulk" THEN Len(fetchLog) ELSE Len(trace)

\* The deadline passes: during the next call that carries the context, or
\* between two calls.
Expire ==
    /\ ctx.state = "live" /\ pc # "done"
    /\ \E inFlight \in BOOLEAN :
        ctx' = [state |-> IF inFlight THEN "expiring" ELSE "done",
                at |-> Issued, pc |-> pc, inFlight |-> inFlight]
    /\ UNCHANGED <<cfgVars, docVars, owner, moreVars, fetchVars, resVars, bulkVars, reqVars,
                   tmp, now, janitorVars>>

DeadlineRequests ==
    [kind : {"bulk"},
     items : UNION {[1..n -> {<<"a", ".", "t">>}] : n \in 1..MaxItems},
     categoryName : {<<"a">>}]
    \cup [kind : {"doc"}, categoryID : {"c"}, idx : {0}, size : {maxSize},
          declares : BOOLEAN, innerFilename : {<<"document">>}]

InitDeadline ==
    /\ req \in DeadlineRequests
    /\ pc = "start" /\ baseDir = NoDir /\ ret = None /\ archive = <<>>
    /\ held = NoDir /\ sendResult = None
    /\ tmp = EmptyTmp /\ now = 0
    /\ IdleBulk /\ IdleFetch /\ IdleResolve /\ IdleJanitor
    /\ DefaultCfg
    /\ sheet \in IF req.kind = "doc"
                 THEN {<<Row("A", "c", ShareLink, <<>>)>>,
                       <<Row("F", "c", ForeignLink, <<>>)>>}
                 ELSE {<<>>}
    /\ doc = None /\ trace = <<>> /\ NoOwners /\ ctx = LiveCtx /\ IdleMore

NextDeadline ==
    \/ Expire
    \/ BulkBegin
    \/ BulkFetch
    \/ BulkZip
    \/ ZipBytesToTemp
    \/ HandlerTakesResult
    \/ SendArchive
    \/ DeferredRemoveAll
    \/ ProxyReadDocs
    \/ ProxyProbe
    \/ ProxyGetFile
    \/ StoreHandle

SpecDeadline == InitDeadline /\ [][NextDeadline]_vars

\* The network calls of a single-document request made after the deadline
\* was set to pass: all of them fail, and only the one in flight at that
\* moment has sent anything.
CallsAfterDeadlineFail ==
    \A k \in (ctx.at + 1)..Len(trace) :
        trace[k].op \in {"GetFileSize", "GetFile"} =>
            /\ trace[k].err # "nil"
            /\ (k > ctx.at + 1 \/ ~ctx.inFlight) => trace[k].calls = <<>>

\* C21: when the deadline passes during a resolve, probe or fetch, that call
\* returns an error, the request sends nothing more to the upstream, and the
\* workspace built so far is gone when the builder returns the error.
C21_DeadlineAbortsAndCleansUp ==
    /\ (req.kind = "doc" /\ ctx.state = "done")
          => /\ CallsAfterDeadlineFail
             /\ ctx.pc \in {"start", "probe", "fetch"}
                    => (tmp = EmptyTmp /\ baseDir = NoDir /\ ~Did("sendArchive"))
    /\ (req.kind = "bulk" /\ ctx.state = "done" /\ ctx.pc \in {"start", "loop"}
            /\ pc \notin {"start", "loop"})
          => /\ pc # "zip"
             /\ ret.err # "nil" /\ ret.zipPath = <<>> /\ ret.dir = <<>>
             /\ Len(fetchLog) <= ctx.at + 1
             /\ archive = <<>>
             /\ baseDir \notin DOMAIN tmp

\* C21 witness: the deadline passed during the second download of a batch,
\* after the first file had been written; the builder returned the error
\* with the workspace removed.
C21_Witness ==
    /\ req.kind = "bulk" /\ ctx.state = "done" /\ ctx.inFlight /\ ctx.pc = "loop"
    /\ ctx.at = 1 /\ Len(fetchLog) = 2 /\ Len(req.items) = 3
    /\ pc = "returned" /\ ret.err = "network"
    /\ baseDir # NoDir /\ baseDir \notin DOMAIN tmp

(***************************************************************************)
(* SpecTwice: BulkDownloadAndZip called a second time with the arguments   *)
(* of a first, successful call.  The first call's workspace may still be   *)
(* there (its caller removes it only after sending).                       *)
(***************************************************************************)
CallAgain ==
    /\ pc = "returned" /\ req.kind = "bulk" /\ ret.err = "nil" /\ prior = None
    /\ prior' = [archive |-> archive, dir |-> ret.dir]
    /\ \E removed \in BOOLEAN :
        tmp' = IF removed THEN RemoveAll(tmp, ret.dir) ELSE tmp
    /\ pc' = "start" /\ baseDir' = NoDir /\ ret' = None /\ archive' = <<>>
    /\ idx' = 0 /\ used' = {} /\ writtenPaths' = <<>> /\ total' = 0
    /\ fetchLog' = <<>> /\ fetchedBytes' = 0 /\ exceededAt' = 0
    /\ UNCHANGED <<cfgVars, docVars, owner, lateVars, ctx, pairVars, adminVars, nameVars,
                   fetchVars, resVars, req, held, sendResult, now, janitorVars>>

TwiceRequests ==
    [kind : {"bulk"},
     items : UNION {[1..n -> {<<"a", ".", "t">>, <<"b", ".", "t">>}] : n \in 1..MaxItems},
     categoryName : {<<"a">>}]

InitTwice ==
    /\ req \in TwiceRequests
    /\ pc = "start" /\ baseDir = NoDir /\ ret = None /\ archive = <<>>
    /\ held = NoDir /\ sendResult = None
    /\ tmp = EmptyTmp /\ now = 0
    /\ IdleBulk /\ IdleFetch /\ IdleResolve /\ IdleJanitor
    /\ DefaultCfg /\ IdleDoc /\ NoOwners /\ ctx = LiveCtx /\ IdleMore

NextTwice ==
    \/ BulkBegin
    \/ BulkFetch
    \/ BulkZip
    \/ CallAgain

SpecTwice == InitTwice /\ [][NextTwice]_vars

\* C23: a second successful call with the same arguments returns an archive
\* with the entry names of the first, in the same order, and the same bytes
\* in every entry, whether or not the first workspace is still there.
C23_SecondCallYieldsSameEntries ==
    (prior # None /\ BulkSucceeded) =>
        /\ Len(archive) = Len(prior.archive)
        /\ \A k \in 1..Len(archive) :
            /\ archive[k].name = prior.archive[k].name
            /\ archive[k].content = prior.archive[k].content

(***************************************************************************)
(* SpecSame: the resolver and the fetch are given the same link and the    *)
(* same answers of the upstream; fetchOut keeps where GetFile downloads    *)
(* from, resOut what GetDirectURL resolves.                                *)
(***************************************************************************)
\* GetFile up to its call of downloadByURL: the URL it downloads from, and
\* the strategies it went through.
GetFileSource(in) ==
    LET shareURL == TrimSpace(in.link) IN
    IF ~isYandexDiskURL(shareURL) THEN ResolveResult(<<>>, "ErrNotYandexDisk", <<>>, <<>>)
    ELSE IF in.pageErr THEN ResolveResult(<<>>, "transport", <<"GET share">>, <<>>)
    ELSE IF in.loc # <<>> /\ (Contains(in.loc, <<"downloader.", "disk.yandex">>)
                              \/ HasPrefix(in.loc, <<"https://">>))
         THEN ResolveResult(in.loc, "nil", <<"GET share">>, <<"location">>)
    ELSE IF in.bodyErr
         THEN ResolveResult(<<>>, "read", <<"GET share">>, <<"location", "markup">>)
    ELSE IF FindInPrefix(in) # <<>>
         THEN ResolveResult(FindInPrefix(in), "nil", <<"GET share">>, <<"location", "markup">>)
    ELSE IF getDirectViaCloudAPI(in) # <<>>
         THEN ResolveResult(getDirectViaCloudAPI(in), "nil", <<"GET share", "GET api">>,
                            <<"location", "markup", "api">>)
    ELSE ResolveResult(<<>>, "ErrDirectNotFound", <<"GET share", "GET api">>,
                       <<"location", "markup", "api">>)

\* GetFile is called with the link and finds its source.
FindSource ==
    /\ resIn # None /\ fetchOut = None
    /\ fetchOut' = GetFileSource(resIn)
    /\ UNCHANGED <<cfgVars, docVars, owner, moreVars, ctx, resVars, fetchIn, bulkVars,
                   reqVars, tmp, now, janitorVars>>

NextSame ==
    \/ Resolve
    \/ FindSource

SpecSame == InitResolve /\ [][NextSame]_vars

\* C30: for the same link and the same answers of the upstream, when GetFile
\* downloads, it downloads from the URL GetDirectURL resolves, found by the
\* same strategy; a Location is taken by both or by neither.
C30_GetFileUsesResolvedURL ==
    (resOut # None /\ fetchOut # None) =>
        /\ fetchOut.err = "nil" =>
                /\ resOut.err = "nil"
                /\ resOut.url = fetchOut.url
                /\ resOut.tried = fetchOut.tried
        /\ (isYandexDiskURL(TrimSpace(resIn.link)) /\ resOut.err = "nil")
                => fetchOut.err = "nil"

(***************************************************************************)
(* SpecName: the file name of a single document, from the header value to  *)
(* the archive entry.  A header value is a sequence of tokens; "filename=" *)
(* is one token, every other token one character.                          *)
(***************************************************************************)
MaxHeaderLen == 4

HeaderTokens == {"filename=", "a", "\"", ";", " ", ":", "/"}

RECURSIVE StringsUpTo(_, _)
StringsUpTo(alphabet, n) ==
    IF n = 0 THEN {<<>>}
    ELSE LET shorter == StringsUpTo(alphabet, n - 1)
         IN shorter \cup {Append(w, t) : w \in shorter, t \in alphabet}

Headers == StringsUpTo(HeaderTokens, MaxHeaderLen)

\* strings.Index(s, tok) and strings.IndexAny(s, chars), 1-based; 0 if absent.
IndexAny(s, chars) ==
    IF \E i \in 1..Len(s) : s[i] \in chars
    THEN CHOOSE i \in 1..Len(s) : s[i] \in chars /\ \A j \in 1..(i - 1) : s[j] \notin chars
    ELSE 0

\* strings.Trim(s, cutset)
RECURSIVE Trim(_, _)
Trim(s, cutset) ==
    IF s # <<>> /\ Head(s) \in cutset THEN Trim(Tail(s), cutset)
    ELSE IF s # <<>> /\ s[Len(s)] \in cutset THEN Trim(SubSeq(s, 1, Len(s) - 1), cutset)
    ELSE s

\* downloadByURL: the file name taken from the Content-Disposition value.
FilenameOf(h) ==
    LET i == IndexAny(h, {"filename="})
    IN IF h = <<>> \/ i = 0 THEN <<"document">>
       ELSE LET t == Trim(SubSeq(h, i + 1, Len(h)), {" ", "\"", "'"})
                end == IndexAny(t, {";", " ", "\t", "\n"})
                cut == IF end > 1 THEN SubSeq(t, 1, end - 1) ELSE t
            IN IF cut # <<>> THEN cut ELSE <<"document">>

\* ZipBytesToTemp: innerFilename = filepath.Base(innerFilename), "document" if
\* that is empty or "."; it names the payload file and the archive entry.
InnerNameOf(name) ==
    IF Base(name) \in {<<>>, <<".">>} THEN <<"document">> ELSE Base(name)

ReservedCharacters == {"/", "\\", ":", "*", "?", "\"", "<", ">", "|"}

\* downloadByURL reads the header of the HEAD answer.
ParseDisposition ==
    /\ fileName = None
    /\ fileName' = [returned |-> FilenameOf(cd), inner |-> <<>>]
    /\ UNCHANGED <<cd, cfgVars, docVars, owner, lateVars, ctx, prior, pairVars, adminVars,
                   fetchVars, resVars, bulkVars, reqVars, tmp, now, janitorVars>>

\* runProxyArchive hands the returned name to ZipBytesToTemp.
NameEntry ==
    /\ fileName # None /\ fileName.inner = <<>>
    /\ fileName' = [fileName EXCEPT !.inner = InnerNameOf(fileName.returned)]
    /\ UNCHANGED <<cd, cfgVars, docVars, owner, lateVars, ctx, prior, pairVars, adminVars,
                   fetchVars, resVars, bulkVars, reqVars, tmp, now, janitorVars>>

InitName ==
    /\ IdleLate
    /\ cd \in Headers /\ fileName = None
    /\ prior = None /\ reqs = [r \in {} |-> None] /\ pathLog = <<>>
    /\ update = None /\ ran = <<>>
    /\ tmp = EmptyTmp /\ now = 0
    /\ IdleFetch /\ IdleResolve /\ IdleBulk /\ IdleRequest /\ IdleJanitor
    /\ DefaultCfg /\ IdleDoc /\ NoOwners /\ ctx = LiveCtx

NextName ==
    \/ ParseDisposition
    \/ NameEntry

SpecName == InitName /\ [][NextName]_vars

\* C25: the name used for the payload file and the archive entry is the
\* default when the header carries no file name, and for every header value
\* it contains no path separator and no reserved character.
C25_EntryNameIsSanitized ==
    (fileName # None /\ fileName.inner # <<>>) =>
        /\ (IndexAny(cd, {"filename="}) = 0 => fileName.inner = <<"document">>)
        /\ \A i \in 1..Len(fileName.inner) : fileName.inner[i] \notin ReservedCharacters

(***************************************************************************)
(* SpecAdmin: one incoming text message, from the dispatcher through the   *)
(* middleware to the handler that runs.  A text is a sequence of tokens:   *)
(* "/send" and "/reload" stand for these words, "x" for a word character,  *)
(* "@bot" for "@" and the bot's own user name, " " for white space.        *)
(***************************************************************************)
MaxTextLen == 4

TextTokens == {"/send", "/reload", " ", "x", "@bot"}

Texts == StringsUpTo(TextTokens, MaxTextLen)

\* The run of word characters at the start of t.
RECURSIVE WordRun(_)
WordRun(t) == IF t # <<>> /\ Head(t) = "x" THEN <<"x">> \o WordRun(Tail(t)) ELSE <<>>

\* The dispatcher's command pattern ^(/\w+)(@(\w+))?(\s|$)(.+)? on the text:
\* the command matched and whether the name after "@" is the bot's own.
cmdRx(t) ==
    IF t = <<>> \/ Head(t) \notin {"/send", "/reload"}
    THEN [match |-> FALSE, command |-> <<>>, ownName |-> TRUE]
    ELSE LET word == WordRun(Tail(t))
             command == <<Head(t)>> \o word
             rest == SubSeq(t, Len(command) + 1, Len(t))
             named == rest # <<>> /\ Head(rest) = "@bot"
             nameTail == IF named THEN WordRun(Tail(rest)) ELSE <<>>
             after == IF named THEN SubSeq(rest, 2 + Len(nameTail), Len(rest)) ELSE rest
         IN [match |-> after = <<>> \/ Head(after) = " ",
             command |-> command, ownName |-> nameTail = <<>>]

\* The middleware lets the update through to the handler.
MiddlewarePasses(text, admin) ==
    (text = <<"/send">> \/ HasPrefix(text, <<"/send", " ">>) \/ text = <<"/reload">>)
        => admin

\* The OnText handler: what it runs for the text.
OnTextRuns(text) ==
    LET txt == TrimSpace(text) IN
    IF txt = <<"/send">> THEN <<"usage">>
    ELSE IF HasPrefix(txt, <<"/send", " ">>)
         THEN IF TrimSpace(SubSeq(txt, 3, Len(txt))) = <<>> THEN <<"usage">>
              ELSE <<"onSend">>
    ELSE <<"menu">>

\* The handler the dispatcher picks for a text: the one registered for the
\* matched command, else the OnText handler; none for a command addressed to
\* another bot.
HandlerFor(text) ==
    LET m == cmdRx(text) IN
    IF m.match /\ ~m.ownName THEN "none"
    ELSE IF m.match /\ m.command = <<"/reload">> THEN "/reload"
    ELSE "OnText"

\* One update is processed: dispatcher, middleware, handler.
ProcessUpdate ==
    /\ update # None /\ ran = <<>>
    /\ LET h == HandlerFor(update.text) IN
       ran' = IF h = "none" THEN <<"dropped">>
              ELSE IF ~MiddlewarePasses(update.text, update.admin) THEN <<"refused">>
              ELSE IF h = "/reload" THEN <<"onReload">>
              ELSE OnTextRuns(update.text)
    /\ UNCHANGED <<update, cfgVars, docVars, owner, lateVars, ctx, prior, pairVars, nameVars,
                   fetchVars, resVars, bulkVars, reqVars, tmp, now, janitorVars>>

InitAdmin ==
    /\ IdleLate
    /\ update \in [text : Texts \ {<<>>}, admin : BOOLEAN] /\ ran = <<>>
    /\ prior = None /\ reqs = [r \in {} |-> None] /\ pathLog = <<>>
    /\ cd = <<>> /\ fileName = None
    /\ tmp = EmptyTmp /\ now = 0
    /\ IdleFetch /\ IdleResolve /\ IdleBulk /\ IdleRequest /\ IdleJanitor
    /\ DefaultCfg /\ IdleDoc /\ NoOwners /\ ctx = LiveCtx

NextAdmin == ProcessUpdate

SpecAdmin == InitAdmin /\ [][NextAdmin]_vars

\* C27: for a sender who is not an admin, whatever the text, neither the
\* broadcast nor the cache reset runs.
C27_AdminCommandsForAdminsOnly ==
    (update # None /\ ~update.admin) =>
        \A i \in 1..Len(ran) : ran[i] \notin {"onSend", "onReload"}

(***************************************************************************)
(* SpecPair: two delivery requests run concurrently (one goroutine each,   *)
(* handlers.go 401 and 413).  Each builds in a workspace of its own; the   *)
(* steps of the two interleave freely.  pathLog keeps what each request    *)
(* did to which path; a path is the sequence of names below the temp root. *)
(***************************************************************************)
Requests == {1, 2}

\* The arguments a request arrives with: a batch of item names, or the file
\* name GetFile returned for a single document.
PairArguments ==
    [kind : {"bulk"},
     names : {<<<<"a", ".", "t">>>>, <<<<"a", ".", "t">>, <<"a", ".", "t">>>>,
              <<<<".", ".">>>>, <<<<".">>>>, <<<<"/">>>>}]
    \cup [kind : {"single"},
          names : {<<<<"a", ".", "t">>>>, <<<<"d", "/", ".", ".">>>>}]

\* filepath.Join(dir, name) for a name without separators, cleaned: ".." is
\* the temp root, "." the directory itself.
Join(dir, name) ==
    IF name = <<".", ".">> THEN <<>>
    ELSE IF name = <<".">> THEN <<dir>>
    ELSE <<dir, name>>

\* The path names a directory (the temp root or a workspace): creating a
\* file there fails.
IsDirectory(path) == Len(path) < 2

\* Ids handed out so far are not handed out again.
NamesTaken ==
    [n \in DOMAIN tmp \cup {reqs[r].dir : r \in {q \in Requests : reqs[q].dir # NoDir}}
        |-> None]

\* The name request r gives its next payload file.
PayloadName(r) ==
    IF reqs[r].kind = "bulk"
    THEN Dedup(BaseName(reqs[r].names[reqs[r].k + 1], reqs[r].k), reqs[r].used)
    ELSE IF Base(reqs[r].names[1]) \in {<<>>, <<".">>}
         THEN <<"document">> ELSE Base(reqs[r].names[1])

Logged(r, op, path) == Append(pathLog, [r |-> r, op |-> op, path |-> path])

\* os.MkdirAll(filepath.Join(tmp, prefix+uuid.New().String()), 0700)
PairOpen(r) ==
    /\ reqs[r].pc = "start"
    /\ LET dir == <<IF reqs[r].kind = "bulk" THEN "bulk_" ELSE "single_",
                    uuidNew(NamesTaken)>>
       IN /\ tmp' = MkdirAll(tmp, dir, now)
          /\ reqs' = [reqs EXCEPT ![r].pc = "loop", ![r].dir = dir]
          /\ pathLog' = Logged(r, "mkdir", <<dir>>)

\* DownloadToFile(ctx, url, destPath) / os.WriteFile(rawPath, data, 0600);
\* on an error cleanup() removes the request's directory.
PairWrite(r) ==
    /\ reqs[r].pc = "loop"
    /\ LET dir == reqs[r].dir
           name == PayloadName(r)
           dest == Join(dir, name)
           aimed == Logged(r, "destPath", dest)
       IN \E ok \in BOOLEAN :
            IF ok /\ ~IsDirectory(dest) /\ dir \in DOMAIN tmp
            THEN /\ tmp' = WriteFile(tmp, dir, name, Fetched(reqs[r].k), now)
                 /\ pathLog' = Append(aimed, [r |-> r, op |-> "write", path |-> dest])
                 /\ reqs' = [reqs EXCEPT
                        ![r].k = @ + 1, ![r].used = @ \cup {name},
                        ![r].pc = IF reqs[r].k + 1 = Len(reqs[r].names)
                                  THEN "zip" ELSE "loop"]
            ELSE /\ tmp' = RemoveAll(tmp, dir)
                 /\ pathLog' = Append(aimed, [r |-> r, op |-> "removeAll", path |-> <<dir>>])
                 /\ reqs' = [reqs EXCEPT ![r].pc = "done"]

\* os.Create(zipPath) and the zip pass.
PairZip(r) ==
    /\ reqs[r].pc = "zip"
    /\ LET dir == reqs[r].dir
           zipName == <<"a", ".", "zip">>
       IN \E ok \in BOOLEAN :
            IF ok /\ dir \in DOMAIN tmp
            THEN /\ tmp' = WriteFile(tmp, dir, zipName, ZipBytes, now)
                 /\ pathLog' = Logged(r, "create", Join(dir, zipName))
                 /\ reqs' = [reqs EXCEPT ![r].pc = "held"]
            ELSE /\ tmp' = RemoveAll(tmp, dir)
                 /\ pathLog' = Logged(r, "removeAll", <<dir>>)
                 /\ reqs' = [reqs EXCEPT ![r].pc = "done"]

\* The handler's deferred os.RemoveAll after the send.
PairRelease(r) ==
    /\ reqs[r].pc = "held"
    /\ tmp' = RemoveAll(tmp, reqs[r].dir)
    /\ pathLog' = Logged(r, "removeAll", <<reqs[r].dir>>)
    /\ reqs' = [reqs EXCEPT ![r].pc = "done"]

PairRest ==
    UNCHANGED <<cfgVars, docVars, owner, lateVars, ctx, prior, adminVars, nameVars, fetchVars,
                resVars, bulkVars, reqVars, now, janitorVars>>

Opens == \E r \in Requests : PairOpen(r) /\ PairRest
Writes == \E r \in Requests : PairWrite(r) /\ PairRest
Zips == \E r \in Requests : PairZip(r) /\ PairRest
Releases == \E r \in Requests : PairRelease(r) /\ PairRest

NextPair ==
    \/ Opens
    \/ Writes
    \/ Zips
    \/ Releases

InitPair ==
    /\ IdleLate
    /\ reqs \in [Requests -> {[kind |-> a.kind, names |-> a.names, pc |-> "start",
                                dir |-> NoDir, k |-> 0, used |-> {}] :
                               a \in PairArguments}]
    /\ pathLog = <<>>
    /\ prior = None /\ update = None /\ ran = <<>>
    /\ cd = <<>> /\ fileName = None
    /\ tmp = EmptyTmp /\ now = 0
    /\ IdleFetch /\ IdleResolve /\ IdleBulk /\ IdleRequest /\ IdleJanitor
    /\ DefaultCfg /\ IdleDoc /\ NoOwners /\ ctx = LiveCtx

SpecPair == InitPair /\ [][NextPair]_vars

FileOps == {"write", "create"}

C29_DestinationIsChildOfWorkspace ==
    \A i \in 1..Len(pathLog) :
        (pathLog[i].op = "destPath" /\ reqs[pathLog[i].r].kind = "bulk") =>
            /\ Len(pathLog[i].path) = 2
            /\ pathLog[i].path[1] = reqs[pathLog[i].r].dir

(***************************************************************************)
(* The janitor (StartCleanupWorker in main.go).  Time is in minutes.       *)
(***************************************************************************)
cleanupMaxAge == 30
cleanupInterval == 60

\* What lives in the temp root beside the janitor: workspaces of requests
\* (live or crashed), temp files, and entries of other programs.
RootEntries ==
    <<[name |-> <<"bugchat-", 3>>, isDir |-> FALSE],
      [name |-> <<"bulk_", 1>>, isDir |-> TRUE],
      [name |-> <<"notes", 4>>, isDir |-> FALSE]>>

\* How far the clock moves in one step.
ClockSteps == {15, 30}

\* The workspaces delivery requests create next to them (downloader.go:67 and
\* 164 name them bulk_<uuid> and single_<uuid>).
Workspaces == {<<"bulk_", 1>>, <<"single_", 2>>}

\* Entries that carry a workspace prefix but are of the other kind: a
\* directory named bugchat-*, a plain file named bulk_*.
OddEntries ==
    <<[name |-> <<"bugchat-", 6>>, isDir |-> TRUE],
      [name |-> <<"bulk_", 5>>, isDir |-> FALSE]>>

\* Every entry the temp root can hold, in the order ReadDir lists them.
AllEntries ==
    <<RootEntries[1], OddEntries[1], RootEntries[2], OddEntries[2], RootEntries[3],
      [name |-> <<"single_", 2>>, isDir |-> TRUE]>>

\* os.ReadDir(dir): the entries present, sorted by name.
ReadDir(t) == SelectSeq(AllEntries, LAMBDA e : e.name \in DOMAIN t)

\* now.Sub(info.ModTime())
AgeSinceEpoch(nowT, modTime) == nowT
Age(nowT, modTime) == nowT - modTime

\* A loop body that goes by the name alone.
RemovesByName(e, t, at) ==
    /\ e.name[1] \in {"bulk_", "single_", "bugchat-"}
    /\ e.name \in DOMAIN t
    /\ Age(at, t[e.name].mtime) >= cleanupMaxAge
\* A loop body without the branch for directories.
RemovesOnlyFiles(e, t, at) ==
    /\ ~e.isDir
    /\ e.name[1] = "bugchat-"
    /\ e.name \in DOMAIN t
    /\ ~(Age(at, t[e.name].mtime) < cleanupMaxAge)
\* The loop body's decision for entry e of the snapshot, taken at time `at`
\* on temp root t: true when the entry is deleted.  A failed e.Info() (the
\* entry is gone) skips the entry.
Removes(e, t, at) ==
    IF e.isDir
    THEN /\ e.name[1] \in {"bulk_", "single_"}
         /\ e.name \in DOMAIN t
         /\ Age(at, t[e.name].mtime) >= cleanupMaxAge
    ELSE /\ e.name[1] = "bugchat-"
         /\ e.name \in DOMAIN t
         /\ ~(Age(at, t[e.name].mtime) < cleanupMaxAge)

\* Whether a request still owns workspace n (it is building the archive in it
\* or sending the archive), or died before its RemoveAll.
Live(n) == n \in DOMAIN owner /\ owner[n] \in {"building", "sending"}
Abandoned(n) == n \in DOMAIN owner /\ owner[n] = "crashed"

\* time.Now() moves on.
Tick ==
    /\ \E d \in ClockSteps : now + d <= MaxNow /\ now' = now + d
    /\ UNCHANGED <<cfgVars, docVars, owner, moreVars, ctx, fetchVars, resVars, bulkVars, reqVars, tmp, janitorVars>>

\* Something writes into the temp root: an entry appears, or an existing one
\* is modified, and carries the current time as its modification time.
Touch ==
    /\ \E k \in 1..Len(RootEntries) :
        tmp' = [n \in DOMAIN tmp \cup {RootEntries[k].name} |->
                    IF n = RootEntries[k].name
                    THEN [isDir |-> RootEntries[k].isDir, mtime |-> now,
                          files |-> [f \in {} |-> None]]
                    ELSE tmp[n]]
    /\ UNCHANGED <<cfgVars, docVars, owner, moreVars, ctx, fetchVars, resVars, bulkVars, reqVars, now, janitorVars>>

\* for range ticker.C { entries, err := os.ReadDir(dir); now := time.Now()
SweepStart ==
    /\ sweepNow = -1 /\ now >= nextTick
    /\ nextTick' = nextTick + cleanupInterval
    /\ \E readErr \in BOOLEAN :
        IF readErr
        THEN UNCHANGED <<sweepNow, entries, swept>>
        ELSE sweepNow' = now /\ entries' = ReadDir(tmp) /\ swept' = {}
    /\ UNCHANGED <<cfgVars, docVars, owner, moreVars, ctx, fetchVars, resVars, bulkVars, reqVars, tmp, now>>

\* One iteration of the loop over the ReadDir snapshot.
SweepEntry ==
    /\ sweepNow # -1 /\ entries # <<>>
    /\ LET e == Head(entries)
           name == e.name
           gone == name \notin DOMAIN tmp          \* e.Info() fails
           modTime == tmp[name].mtime
           remove == Removes(e, tmp, sweepNow)
       IN
        /\ tmp' = IF remove THEN RemoveAll(tmp, name) ELSE tmp
        /\ swept' = IF gone THEN swept
                    ELSE swept \cup {[name |-> name, modTime |-> modTime,
                                      at |-> sweepNow, removed |-> remove,
                                      live |-> Live(name)]}
    /\ entries' = Tail(entries)
    /\ UNCHANGED <<cfgVars, docVars, owner, moreVars, ctx, fetchVars, resVars, bulkVars, reqVars, now, nextTick, sweepNow>>

\* The snapshot is exhausted: back to waiting for the ticker.
SweepEnd ==
    /\ sweepNow # -1 /\ entries = <<>>
    /\ sweepNow' = -1 /\ swept' = {}
    /\ UNCHANGED <<cfgVars, docVars, owner, moreVars, ctx, fetchVars, resVars, bulkVars, reqVars, tmp, now, nextTick,
                   entries>>

InitJanitor ==
    /\ now = 0 /\ tmp = EmptyTmp
    /\ nextTick = cleanupInterval /\ sweepNow = -1 /\ entries = <<>> /\ swept = {}
    /\ IdleFetch /\ IdleResolve /\ IdleBulk /\ IdleRequest
    /\ DefaultCfg /\ IdleDoc /\ NoOwners /\ ctx = LiveCtx /\ IdleMore

NextJanitor ==
    \/ Tick
    \/ Touch
    \/ SweepStart
    \/ SweepEntry
    \/ SweepEnd

SpecJanitor == InitJanitor /\ [][NextJanitor]_vars

\* C10: no sweep deletes a workspace directory or temp file whose
\* modification time lies less than the retention window before the time
\* the sweep took as its current time.
C10_YoungEntriesSurviveTheSweep ==
    \A d \in swept : d.removed => d.modTime <= d.at - cleanupMaxAge

\* C10 witness: one sweep removed an entry exactly as old as the window and
\* kept a workspace modified after that.
C10_Witness ==
    \E d, k \in swept :
        /\ d.removed /\ d.at - d.modTime = cleanupMaxAge
        /\ ~k.removed /\ k.name[1] \in {"bulk_", "single_"}
        /\ k.at = d.at /\ k.at - k.modTime < cleanupMaxAge

(***************************************************************************)
(* SpecFrame: the janitor on a temp root that holds entries of every kind  *)
(* and name, old and young; nothing else writes meanwhile.                 *)
(***************************************************************************)
\* Modification times of the entries found at start-up.
StartTimes == {0, 45}

PopulatedRoots ==
    {[n \in {AllEntries[k].name : k \in ks} |->
        [isDir |-> (CHOOSE e \in {AllEntries[k] : k \in 1..Len(AllEntries)} :
                        e.name = n).isDir,
         mtime |-> m[n], files |-> [f \in {} |-> None]]] :
        ks \in (SUBSET (1..Len(AllEntries))) \ {{}},
        m \in [{AllEntries[k].name : k \in 1..Len(AllEntries)} -> StartTimes]}

InitFrame ==
    /\ now = 0 /\ tmp \in PopulatedRoots
    /\ nextTick = cleanupInterval /\ sweepNow = -1 /\ entries = <<>> /\ swept = {}
    /\ IdleFetch /\ IdleResolve /\ IdleBulk /\ IdleRequest
    /\ DefaultCfg /\ IdleDoc /\ NoOwners /\ ctx = LiveCtx /\ IdleMore

NextFrame ==
    \/ Tick
    \/ SweepStart
    \/ SweepEntry
    \/ SweepEnd

SpecFrame == InitFrame /\ [][NextFrame]_vars

\* The entry is one the sweep is meant for: a directory named bulk_* or
\* single_*, or a plain file named bugchat-*.
IsWorkspaceEntry(n, t) ==
    IF t[n].isDir THEN n[1] \in {"bulk_", "single_"} ELSE n[1] = "bugchat-"

\* C31: a step of the sweep changes no entry of the temp root except that it
\* removes directories named bulk_* or single_* and plain files named
\* bugchat-* whose age has reached the retention window; every other entry
\* stays as it is.
C31_SweepTouchesOnlyOldWorkspaceEntries ==
    [][\A n \in DOMAIN tmp :
          /\ n \in DOMAIN tmp' => tmp'[n] = tmp[n]
          /\ n \notin DOMAIN tmp' =>
                /\ IsWorkspaceEntry(n, tmp)
                /\ sweepNow - tmp[n].mtime >= cleanupMaxAge]_vars

\* C31 witness: a sweep is through; it removed an old workspace directory and
\* an old temp file and left in place an equally old file named bulk_*, a
\* directory named bugchat-* and an entry of another name.
C31_Witness ==
    /\ sweepNow # -1 /\ entries = <<>>
    /\ \E d, f \in swept :
        /\ d.removed /\ d.name = <<"bulk_", 1>>
        /\ f.removed /\ f.name = <<"bugchat-", 3>>
    /\ \A n \in {<<"bulk_", 5>>, <<"bugchat-", 6>>, <<"notes", 4>>} :
        /\ n \in DOMAIN tmp
        /\ sweepNow - tmp[n].mtime >= cleanupMaxAge

(***************************************************************************)
(* The janitor beside delivery requests.  Each request owns one workspace  *)
(* from MkdirAll to its RemoveAll; nothing but the modification time of    *)
(* the directory tells the janitor about it.  The run is followed long     *)
(* after start-up: `now` keeps its reading and every stored time moves     *)
(* back when time passes, so that only ages up to the windows are kept.    *)
(***************************************************************************)
otherVars == <<cfgVars, docVars, fetchVars, resVars, bulkVars, reqVars, ctx, moreVars>>

\* t - d, but no earlier than floor.
Earlier(t, d, floor) == IF t - d < floor THEN floor ELSE t - d

\* d minutes pass between two sweeps.  Directories older than the retention
\* window are kept as exactly that old; the ticker holds at most one tick the
\* loop has not yet taken.
Elapse ==
    /\ sweepNow = -1
    /\ \E d \in ClockSteps :
        /\ now + d > MaxNow
        /\ tmp' = [n \in DOMAIN tmp |->
                    [tmp[n] EXCEPT !.mtime = Earlier(@, d, now - cleanupMaxAge)]]
        /\ nextTick' = Earlier(nextTick, d, now - cleanupInterval)
    /\ UNCHANGED <<otherVars, now, owner, sweepNow, entries, swept>>

\* BulkDownloadAndZip / ZipBytesToTemp: os.MkdirAll of a workspace under a
\* name no entry has.
RequestOpens ==
    /\ \E n \in Workspaces :
        /\ n \notin DOMAIN tmp /\ ~Live(n)
        /\ tmp' = MkdirAll(tmp, n, now)
        /\ owner' = [m \in DOMAIN owner \cup {n} |->
                        IF m = n THEN "building" ELSE owner[m]]
    /\ UNCHANGED <<otherVars, now, janitorVars>>

\* The request creates a file in its workspace (a fetched file, the raw
\* document, the zip).  In a workspace that is gone the creation fails and
\* the request goes on to its cleanup.
RequestWrites ==
    /\ \E n \in Workspaces :
        /\ n \in DOMAIN owner /\ owner[n] = "building" /\ n \in DOMAIN tmp
        /\ tmp' = WriteFile(tmp, n, <<"f">>, ZipBytes, now)
    /\ UNCHANGED <<otherVars, now, owner, janitorVars>>

\* The builder returned the archive; bot.Send reads it, which leaves the
\* directory's modification time alone.
RequestSends ==
    /\ \E n \in Workspaces :
        /\ n \in DOMAIN owner /\ owner[n] = "building"
        /\ owner' = [owner EXCEPT ![n] = "sending"]
    /\ UNCHANGED <<otherVars, now, tmp, janitorVars>>

\* cleanup() on a builder's error, or the handler's deferred os.RemoveAll.
RequestReleases ==
    /\ \E n \in Workspaces :
        /\ Live(n)
        /\ tmp' = RemoveAll(tmp, n)
        /\ owner' = [m \in DOMAIN owner \ {n} |-> owner[m]]
    /\ UNCHANGED <<otherVars, now, janitorVars>>

\* The request dies between MkdirAll and its RemoveAll: the workspace stays.
RequestCrashes ==
    /\ \E n \in Workspaces :
        /\ Live(n)
        /\ owner' = [owner EXCEPT ![n] = "crashed"]
    /\ UNCHANGED <<otherVars, now, tmp, janitorVars>>

\* A tick whose ReadDir succeeded.
SweepStartOK == SweepStart /\ sweepNow' # -1

InitWorker ==
    /\ now = MaxNow /\ tmp = EmptyTmp
    /\ nextTick = now + cleanupInterval /\ sweepNow = -1 /\ entries = <<>> /\ swept = {}
    /\ IdleFetch /\ IdleResolve /\ IdleBulk /\ IdleRequest
    /\ DefaultCfg /\ IdleDoc /\ NoOwners /\ ctx = LiveCtx /\ IdleMore

NextWorker ==
    \/ Elapse
    \/ RequestOpens
    \/ RequestWrites
    \/ RequestSends
    \/ RequestReleases
    \/ RequestCrashes
    \/ SweepStart
    \/ SweepEntry
    \/ SweepEnd

SpecWorker == InitWorker /\ [][NextWorker]_vars

\* Time passes, the ticker fires, ReadDir does not fail for ever, and the
\* loop body runs to its end.
SpecWorkerFair ==
    /\ InitWorker /\ [][NextWorker]_vars
    /\ WF_vars(Elapse)
    /\ SF_vars(SweepStartOK)
    /\ WF_vars(SweepEntry)
    /\ WF_vars(SweepEnd)

\* One whole sweep of temp root t at time `at`, nothing else running: the
\* loop body applied to each entry of the snapshot in turn.
RECURSIVE SweepAll(_, _, _)
SweepAll(es, t, at) ==
    IF es = <<>> THEN t
    ELSE SweepAll(Tail(es),
                  IF Removes(Head(es), t, at) THEN RemoveAll(t, Head(es).name) ELSE t,
                  at)
Sweep(t, at) == SweepAll(ReadDir(t), t, at)

\* C11: a workspace left by a crashed request and older than the retention
\* window is eventually deleted, whatever the live requests do meanwhile.
C11_AbandonedWorkspaceEventuallySwept ==
    \A n \in Workspaces :
        (Abandoned(n) /\ n \in DOMAIN tmp
            /\ Age(now, tmp[n].mtime) >= cleanupMaxAge) ~> (n \notin DOMAIN tmp)

\* C11 witness: a sweep deleted the workspace of a crashed request while
\* another request was building in its own.
C11_Witness ==
    \E d \in swept, n \in Workspaces :
        /\ d.removed /\ Abandoned(d.name) /\ d.name \notin DOMAIN tmp
        /\ n # d.name /\ Live(n) /\ n \in DOMAIN tmp

\* C12 as stated: no sweep deletes a workspace whose request has not released
\* it.
C12_LiveWorkspaceNeverSwept ==
    \A d \in swept : d.removed => ~d.live

\* C12: a sweep deletes the workspace of a live request only when nothing was
\* created in it for the whole retention window, and a second sweep at the
\* same time deletes nothing more.
C12_LiveWorkspaceSweptOnlyWhenStale ==
    /\ \A d \in swept :
        (d.removed /\ d.live) => d.modTime <= d.at - cleanupMaxAge
    /\ Sweep(Sweep(tmp, now), now) = Sweep(tmp, now)

\* C12 witness: one sweep visited the workspace of a live request, kept it,
\* and deleted another workspace.
C12_Witness ==
    \E d, k \in swept :
        /\ d.live /\ ~d.removed /\ d.name \in DOMAIN tmp
        /\ k.removed /\ k.at = d.at


(***************************************************************************)
(* SpecCache: the process-wide cache (main.go 285-353).  Goroutines call   *)
(* ensure (from getText, getCategories, isAdmin) or reload (from /reload); *)
(* the sheet data changes meanwhile.  The data of a source read at sheet   *)
(* version v is written v; a read that failed yields Failed (a nil map or  *)
(* slice).  Time is in units of the clock.                                 *)
(***************************************************************************)
MaxVersion == 1
MaxClock == 2
ttl == 1

Failed == -1
Goroutines == {1, 2}

\* Everything but the clock and the cache's own variables.
elseVars == <<deep, userVars, cfgVars, docVars, owner, ctx, prior, pairVars, adminVars, nameVars,
              fetchVars, resVars, bulkVars, reqVars, tmp, janitorVars>>

IdleLoader == [pc |-> "idle", texts |-> Failed, cats |-> Failed, admins |-> Failed]

\* ensure(): under the lock, return if time.Now().Before(c.expires); else
\* unlock and reload.
Ensure(g) ==
    /\ loaders[g].pc = "idle"
    /\ ~(now < cache.expires)
    /\ loaders' = [loaders EXCEPT ![g].pc = "texts"]
    /\ UNCHANGED <<cache, source, now, chatVars, elseVars>>

\* OnReload: cache.reload(ctx), whatever the expiry.
OnReload(g) ==
    /\ loaders[g].pc = "idle"
    /\ loaders' = [loaders EXCEPT ![g].pc = "texts"]
    /\ UNCHANGED <<cache, source, now, chatVars, elseVars>>

\* texts, _ := c.sheets.GetTextSettings(ctx)
ReadTexts(g) ==
    /\ loaders[g].pc = "texts"
    /\ \E v \in {source, Failed} :
        loaders' = [loaders EXCEPT ![g].pc = "cats", ![g].texts = v]
    /\ UNCHANGED <<cache, source, now, chatVars, elseVars>>

\* cats, _ := c.sheets.GetCategories(ctx)
ReadCats(g) ==
    /\ loaders[g].pc = "cats"
    /\ \E v \in {source, Failed} :
        loaders' = [loaders EXCEPT ![g].pc = "admins", ![g].cats = v]
    /\ UNCHANGED <<cache, source, now, chatVars, elseVars>>

\* chatIDs, usernames, _ := c.sheets.GetAdmins(ctx)
ReadAdmins(g) ==
    /\ loaders[g].pc = "admins"
    /\ \E v \in {source, Failed} :
        loaders' = [loaders EXCEPT ![g].pc = "store", ![g].admins = v]
    /\ UNCHANGED <<cache, source, now, chatVars, elseVars>>

\* c.mu.Lock(); the four fields and c.expires are assigned; Unlock.
Store(g) ==
    /\ loaders[g].pc = "store"
    /\ cache' = [texts |-> loaders[g].texts, cats |-> loaders[g].cats,
                 admins |-> loaders[g].admins, expires |-> now + ttl, by |-> g]
    /\ loaders' = [loaders EXCEPT ![g] = IdleLoader]
    /\ UNCHANGED <<source, now, chatVars, elseVars>>

\* Somebody edits the spreadsheet.
EditSheets ==
    /\ source < MaxVersion
    /\ source' = source + 1
    /\ UNCHANGED <<cache, loaders, now, chatVars, elseVars>>

\* time.Now() moves on.
ClockTick ==
    /\ now < MaxClock
    /\ now' = now + 1
    /\ UNCHANGED <<cache, loaders, source, chatVars, elseVars>>

\* After start-up: main has called cache.reload once, and it read everything.
InitCache ==
    /\ cache = [texts |-> 0, cats |-> 0, admins |-> 0, expires |-> ttl, by |-> 0]
    /\ source = 0 /\ loaders = [g \in Goroutines |-> IdleLoader]
    /\ fsm = <<>> /\ rows = <<>> /\ last = None
    /\ now = 0 /\ tmp = EmptyTmp
    /\ prior = None /\ reqs = [r \in {} |-> None] /\ pathLog = <<>>
    /\ update = None /\ ran = <<>> /\ cd = <<>> /\ fileName = None /\ deep = None
    /\ userTable = <<>> /\ starts = <<>>
    /\ IdleFetch /\ IdleResolve /\ IdleBulk /\ IdleRequest /\ IdleJanitor
    /\ DefaultCfg /\ IdleDoc /\ NoOwners /\ ctx = LiveCtx

Ensures == \E g \in Goroutines : Ensure(g)
Reloads == \E g \in Goroutines : OnReload(g)
TextReads == \E g \in Goroutines : ReadTexts(g)
CatReads == \E g \in Goroutines : ReadCats(g)
AdminReads == \E g \in Goroutines : ReadAdmins(g)
Stores == \E g \in Goroutines : Store(g)

NextCache ==
    \/ Ensures
    \/ Reloads
    \/ TextReads
    \/ CatReads
    \/ AdminReads
    \/ Stores
    \/ EditSheets
    \/ ClockTick

SpecCache == InitCache /\ [][NextCache]_vars

\* A reload of goroutine g stores what it read.
Storing(g) == loaders[g].pc = "store" /\ loaders'[g].pc = "idle"

\* C32: a reload whose read of a source failed leaves the cached value of that
\* source as it was, and a reload with a failed read does not move the expiry.
C32_FailedReadKeepsCachedValues ==
    [][\A g \in Goroutines :
          Storing(g) =>
            /\ loaders[g].texts = Failed => cache'.texts = cache.texts
            /\ loaders[g].cats = Failed => cache'.cats = cache.cats
            /\ loaders[g].admins = Failed => cache'.admins = cache.admins
            /\ Failed \in {loaders[g].texts, loaders[g].cats, loaders[g].admins}
                    => cache'.expires = cache.expires]_vars

\* C33: a reload never replaces data of a source by data it read at an
\* earlier version of the sheets, and the cache's texts, categories and
\* admins are always those one reload stored together.
C33_NoStaleOverwriteNoMixedContents ==
    [][\A g \in Goroutines :
          Storing(g) =>
            /\ (loaders[g].texts # Failed /\ cache.texts # Failed)
                    => cache'.texts >= cache.texts
            /\ (loaders[g].cats # Failed /\ cache.cats # Failed)
                    => cache'.cats >= cache.cats
            /\ (loaders[g].admins # Failed /\ cache.admins # Failed)
                    => cache'.admins >= cache.admins
            /\ cache' = [texts |-> loaders[g].texts, cats |-> loaders[g].cats,
                         admins |-> loaders[g].admins, expires |-> cache'.expires,
                         by |-> g]]_vars

(***************************************************************************)
(* SpecChat: the per-user chat state (fsm in main.go 355-378) under the    *)
(* text and callback handlers (handlers.go 98-153).  One action handles    *)
(* one update of one user from the handler's first line to its return.     *)
(***************************************************************************)
MaxLines == 5
MaxRows == 2

Users == {1, 2}

\* What a user can send: a menu button, /send with or without a text (from
\* an admin or not), any other text with so many non-empty lines, or a press
\* of an inline button.
Updates ==
    [kind : {"menu: documents", "menu: wishes", "menu: IMO access"}]
    \cup [kind : {"/send", "/send x"}, admin : BOOLEAN]
    \cup [kind : {"text"}, lines : 0..MaxLines]
    \cup [kind : {"back_cats", "cat|", "dl_all|", "data"}]

SectionChanges ==
    {"menu: documents", "menu: wishes", "menu: IMO access", "/send", "/send x",
     "back_cats", "cat|", "dl_all|"}

\* fsm.set: the empty state deletes the key.
fsmSet(f, uid, st) == [f EXCEPT ![uid] = st]
fsmReset(f, uid) == fsmSet(f, uid, "")

\* onIMOSubmit: len(parts) < 4
TooFewPartsNever(n) == FALSE
TooFewParts(n) == n < 4

\* The handlers' effect for update m of user u when the append (if one is
\* made) succeeds or fails: the state the section's handler finds, the state
\* left, and the rows appended.
Handled(u, m, ok) ==
    LET was == fsm[u]
        keep == [seen |-> was, left |-> fsm, calls |-> 0, added |-> <<>>]
        cleared == fsmReset(fsm, u)
    IN
    IF m.kind \in {"/send", "/send x"}
    THEN keep
    ELSE IF m.kind = "menu: documents"
    THEN [keep EXCEPT !.seen = "", !.left = cleared]
    ELSE IF m.kind = "menu: wishes"
    THEN [keep EXCEPT !.seen = "", !.left = fsmSet(cleared, u, "wish")]
    ELSE IF m.kind = "menu: IMO access"
    THEN [keep EXCEPT !.seen = "", !.left = fsmSet(cleared, u, "imo")]
    ELSE IF m.kind \in {"back_cats", "cat|", "dl_all|"}
    THEN [keep EXCEPT !.seen = "", !.left = cleared]
    ELSE IF m.kind = "data"
    THEN keep
    ELSE \* any other text: the switch on the pending state
    IF was = "wish"
    THEN IF m.lines = 0
         THEN [keep EXCEPT !.seen = "", !.left = cleared]
         ELSE [seen |-> "", left |-> cleared, calls |-> 1,
               added |-> IF ok THEN <<[sheet |-> "wishes", user |-> u]>> ELSE <<>>]
    ELSE IF was = "imo"
    THEN IF TooFewParts(m.lines)
         THEN keep
         ELSE [seen |-> "", left |-> cleared, calls |-> 1,
               added |-> IF ok THEN <<[sheet |-> "IMO applications", user |-> u]>> ELSE <<>>]
    ELSE keep

\* One update is handled.  /send from a sender who is no admin stops in the
\* middleware.
HandleUpdate ==
    /\ Len(rows) < MaxRows
    /\ \E u \in Users, m \in Updates, ok \in BOOLEAN :
        /\ (m.kind \in {"/send", "/send x"}) => m.admin
        /\ LET h == Handled(u, m, ok) IN
            /\ fsm' = h.left
            /\ rows' = rows \o h.added
            /\ last' = [user |-> u, msg |-> m, before |-> fsm, seen |-> h.seen,
                         calls |-> h.calls, added |-> Len(h.added)]
    /\ UNCHANGED <<cacheVars, now, elseVars>>

InitChat ==
    /\ fsm = [u \in Users |-> ""] /\ rows = <<>> /\ last = None
    /\ cache = None /\ source = 0 /\ loaders = <<>>
    /\ now = 0 /\ tmp = EmptyTmp
    /\ prior = None /\ reqs = [r \in {} |-> None] /\ pathLog = <<>>
    /\ update = None /\ ran = <<>> /\ cd = <<>> /\ fileName = None /\ deep = None
    /\ userTable = <<>> /\ starts = <<>>
    /\ IdleFetch /\ IdleResolve /\ IdleBulk /\ IdleRequest /\ IdleJanitor
    /\ DefaultCfg /\ IdleDoc /\ NoOwners /\ ctx = LiveCtx

NextChat == HandleUpdate

SpecChat == InitChat /\ [][NextChat]_vars

\* C34: when a menu button, /send, or a category, back or download-all press
\* is handled, the section's handler finds the sender without a pending
\* state, and no other user's state has changed.
C34_SectionChangeClearsPendingState ==
    (last # None /\ last.msg.kind \in SectionChanges) =>
        /\ last.seen = ""
        /\ \A v \in Users \ {last.user} : fsm[v] = last.before[v]

\* C35 as stated: a text in state 'imo' with at least 4 non-empty lines always
\* adds exactly one row.
C35_FullApplicationAlwaysAddsARow ==
    (last # None /\ last.msg.kind = "text" /\ last.before[last.user] = "imo"
        /\ last.msg.lines >= 4) => last.added = 1

\* C35: in state 'wish' the next text leaves the user without a state; in
\* state 'imo' a text with fewer than 4 non-empty lines adds no row and keeps
\* the state, one with at least 4 clears the state and makes exactly one
\* append, which adds at most one row; without a pending state a text makes
\* no append.
C35_PendingInputIsConsumed ==
    (last # None /\ last.msg.kind = "text") =>
        LET u == last.user
            was == last.before[u]
        IN
        /\ was = "wish" => fsm[u] = ""
        /\ (was = "imo" /\ last.msg.lines < 4) =>
                (fsm[u] = "imo" /\ last.calls = 0 /\ last.added = 0)
        /\ (was = "imo" /\ last.msg.lines >= 4) =>
                (fsm[u] = "" /\ last.calls = 1 /\ last.added <= 1)
        /\ was = "" => (fsm[u] = "" /\ last.calls = 0 /\ last.added = 0)
        /\ \A v \in Users \ {u} : fsm[v] = last.before[v]

\* C35 witness: a user in state 'imo' sent three lines and then four; the
\* second message was taken and its row is in the sheet.
C35_Witness ==
    /\ last # None /\ last.msg.kind = "text" /\ last.msg.lines = 4
    /\ last.before[last.user] = "imo" /\ fsm[last.user] = ""
    /\ last.added = 1
    /\ rows # <<>> /\ rows[Len(rows)] = [sheet |-> "IMO applications", user |-> last.user]

(***************************************************************************)
(* SpecLink: the deep link of a document, from the payload onCategorySelect *)
(* builds to what handleDeepLink reads out of it.  A category ID is a      *)
(* sequence of characters.                                                 *)
(***************************************************************************)
MaxIdLen == 3
MaxIdx == 12

IdCharacters == {"a", "7", "|"}

CategoryIDs == StringsUpTo(IdCharacters, MaxIdLen) \ {<<>>}

\* base64.URLEncoding: every character of the text is carried in encoded
\* form; decoding gives the text back, and fails on text that is no encoding.
EncodeToString(t) == [i \in 1..Len(t) |-> <<"b64", t[i]>>]
IsEncoding(e) == \A i \in 1..Len(e) : e[i] \in {<<"b64", ch>> : ch \in IdCharacters \cup
                                                   {Digits[d] : d \in 1..10}}
DecodeString(e) == [i \in 1..Len(e) |-> e[i][2]]

\* strconv.Atoi of an unsigned decimal: -1 stands for the error.
RECURSIVE Atoi(_)
Atoi(t) ==
    IF t = <<>> \/ \E i \in 1..Len(t) : \A d \in 1..10 : t[i] # Digits[d] THEN -1
    ELSE LET d == (CHOOSE k \in 1..10 : Digits[k] = t[Len(t)]) - 1
         IN IF Len(t) = 1 THEN d ELSE 10 * Atoi(SubSeq(t, 1, Len(t) - 1)) + d

\* onCategorySelect: the payload for document idx of the category.
PayloadFor(categoryID, i) == EncodeToString(categoryID \o <<"|">> \o Itoa(i))

\* handleDeepLink: categoryID and idx read from the payload, or nothing.
Refused == [ok |-> FALSE, categoryID |-> <<>>, idx |-> 0]
DecodePayload(e) ==
    IF ~IsEncoding(e) THEN Refused
    ELSE LET b == DecodeString(e)
             bar == IndexAny(b, {"|"})
         IN IF bar = 0 THEN Refused           \* len(parts) != 2
            ELSE LET n == Atoi(SubSeq(b, bar + 1, Len(b)))
                 IN IF n < 0 THEN Refused
                    ELSE [ok |-> TRUE, categoryID |-> SubSeq(b, 1, bar - 1), idx |-> n]

\* onCategorySelect renders the link for one document.
RenderLink ==
    /\ deep.payload = <<>>
    /\ deep' = [deep EXCEPT !.payload = PayloadFor(deep.categoryID, deep.idx)]
    /\ UNCHANGED <<cacheVars, chatVars, userVars, now, cfgVars, docVars, owner, ctx, prior,
                   pairVars, adminVars, nameVars, fetchVars, resVars, bulkVars, reqVars,
                   tmp, janitorVars>>

\* The user follows the link: /start dl_<payload> reaches handleDeepLink.
FollowLink ==
    /\ deep.payload # <<>> /\ deep.decoded = None
    /\ deep' = [deep EXCEPT !.decoded = DecodePayload(deep.payload)]
    /\ UNCHANGED <<cacheVars, chatVars, userVars, now, cfgVars, docVars, owner, ctx, prior,
                   pairVars, adminVars, nameVars, fetchVars, resVars, bulkVars, reqVars,
                   tmp, janitorVars>>

InitLink ==
    /\ deep \in [categoryID : CategoryIDs, idx : 0..MaxIdx, payload : {<<>>},
                  decoded : {None}]
    /\ userTable = <<>> /\ starts = <<>>
    /\ cache = None /\ source = 0 /\ loaders = <<>>
    /\ fsm = <<>> /\ rows = <<>> /\ last = None
    /\ now = 0 /\ tmp = EmptyTmp
    /\ prior = None /\ reqs = [r \in {} |-> None] /\ pathLog = <<>>
    /\ update = None /\ ran = <<>> /\ cd = <<>> /\ fileName = None
    /\ IdleFetch /\ IdleResolve /\ IdleBulk /\ IdleRequest /\ IdleJanitor
    /\ DefaultCfg /\ IdleDoc /\ NoOwners /\ ctx = LiveCtx

NextLink ==
    \/ RenderLink
    \/ FollowLink

SpecLink == InitLink /\ [][NextLink]_vars

\* C36: the payload rendered for (categoryID, idx) decodes to exactly that
\* category ID and that index, for every category ID and every idx >= 0.
C36_PayloadRoundTrips ==
    (deep # None /\ deep.decoded # None) =>
        deep.decoded = [ok |-> TRUE, categoryID |-> deep.categoryID, idx |-> deep.idx]

(***************************************************************************)
(* SpecUsers: /start handlers running side by side (telebot runs every     *)
(* handler in a goroutine of its own), each calling EnsureUser for its     *)
(* sender against the one users sheet.                                     *)
(***************************************************************************)
MaxStarts == 3

Handlers == 1..MaxStarts

\* strCell(row[0]) == idStr for some row of the answer
Listed(answer, userID) == \E k \in 1..Len(answer) : answer[k] = userID

\* EnsureUser, Values.Get: the handler reads the sheet as it is now; the read
\* may fail, and then EnsureUser returns the error.
EnsureUserGet(h) ==
    /\ starts[h].pc = "get"
    /\ \E failed \in BOOLEAN :
        starts' = [starts EXCEPT ![h] =
            IF failed THEN [@ EXCEPT !.pc = "done"]
            ELSE IF Listed(userTable, @.user) THEN [@ EXCEPT !.pc = "done", !.found = TRUE]
            ELSE [@ EXCEPT !.pc = "append"]]
    /\ UNCHANGED <<userTable, cacheVars, chatVars, deep, now, cfgVars, docVars, owner, ctx,
                   prior, pairVars, adminVars, nameVars, fetchVars, resVars, bulkVars,
                   reqVars, tmp, janitorVars>>

\* EnsureUser, appendRow: a row for the user goes below the last one, whatever
\* the sheet holds by now; the append may fail.
EnsureUserAppend(h) ==
    /\ starts[h].pc = "append"
    /\ \E failed \in BOOLEAN :
        userTable' = IF failed THEN userTable ELSE Append(userTable, starts[h].user)
    /\ starts' = [starts EXCEPT ![h].pc = "done"]
    /\ UNCHANGED <<cacheVars, chatVars, deep, now, cfgVars, docVars, owner, ctx,
                   prior, pairVars, adminVars, nameVars, fetchVars, resVars, bulkVars,
                   reqVars, tmp, janitorVars>>

Gets == \E h \in Handlers : EnsureUserGet(h)
Appends == \E h \in Handlers : EnsureUserAppend(h)

InitUsers ==
    /\ userTable \in {<<>>, <<1>>}
    /\ starts \in [Handlers -> [user : Users, pc : {"get"}, found : {FALSE}]]
    /\ cache = None /\ source = 0 /\ loaders = <<>>
    /\ fsm = <<>> /\ rows = <<>> /\ last = None /\ deep = None
    /\ now = 0 /\ tmp = EmptyTmp
    /\ prior = None /\ reqs = [r \in {} |-> None] /\ pathLog = <<>>
    /\ update = None /\ ran = <<>> /\ cd = <<>> /\ fileName = None
    /\ IdleFetch /\ IdleResolve /\ IdleBulk /\ IdleRequest /\ IdleJanitor
    /\ DefaultCfg /\ IdleDoc /\ NoOwners /\ ctx = LiveCtx

NextUsers ==
    \/ Gets
    \/ Appends

SpecUsers == InitUsers /\ [][NextUsers]_vars

\* C38: whatever the interleaving of the EnsureUser calls, the users sheet
\* holds at most one row per user ID.
C38_AtMostOneRowPerUser ==
    \A i, j \in 1..Len(userTable) : userTable[i] = userTable[j] => i = j

=============================================================================
